---- MODULE Spec2Model ----
(***************************************************************************)
(* Input-mapping and dispatch engine of positron: trigger hashes, the      *)
(* InputManager (mappings, binding table, event queue, held-button timing) *)
(* and the browser raw input sources that feed it.                         *)
(*                                                                         *)
(* Numbers.  Clock readings are integers (one unit of performance.now()).  *)
(* A time stamp is a pair <<k, m>> standing for k * 10^9 + m * 10^-3: the  *)
(* key source scales the clock by 10^9 and the mouse source divides it by  *)
(* 1000, and the two scales are 10^12 apart, so for the bounded readings   *)
(* of the model sums, differences and comparisons of time stamps are exact *)
(* componentwise / lexicographically.  A real number handed to a listener  *)
(* is a record [n |-> <<a, b>>, d |-> c] standing for                      *)
(* (a + b * 10^-12) / c with c > 0.  Tick lengths (tpf) are counted in     *)
(* thousandths of a second.                                                *)
(***************************************************************************)
EXTENDS Integers, Sequences, FiniteSets, TLC

VARIABLES
    clock,               \* performance.now(), read by both raw sources
    keyInputEvents,      \* BrowserKeyInput.keyInputEvents
    mouseMotionEvents,   \* BrowserMouseInput.mouseMotionEvents
    mouseButtonEvents,   \* BrowserMouseInput.mouseButtonEvents
    mappings,            \* InputManager.mappings: name -> InputMapping
    bindings,            \* InputManager.bindings: hash -> sequence of names
    inputQueue,          \* InputManager.inputQueue
    rawListeners,        \* InputManager.rawListeners
    pressedButtons,      \* InputManager.pressedButtons: hash -> press time
    axisValues,          \* InputManager.axisValues: hash -> value
    frameTPF,            \* InputManager.frameTPF
    lastLastUpdateTime,  \* InputManager.lastLastUpdateTime
    lastUpdateTime,      \* InputManager.lastUpdateTime
    frameDelta,          \* InputManager.frameDelta
    safeMode,            \* InputManager.safeMode
    eventsPermitted,     \* InputManager.eventsPermitted
    nextId,              \* identity of the next event object created
    log,                 \* listener calls made by the last update()
    hist,                \* observations kept across update() calls
    trigA, trigB,        \* two constructed triggers (hash specification)
    hashA, hashB,        \* their triggerHashCode() results: <<>> until computed
    construction,        \* the last trigger construction attempted and its outcome
    keypressListeners,   \* the document's 'keypress' listeners, as closure identities
    canvasListeners      \* the canvas's listeners: event type and handler

vars == <<clock, keyInputEvents, mouseMotionEvents, mouseButtonEvents,
          mappings, bindings, inputQueue, rawListeners, pressedButtons,
          axisValues, frameTPF, lastLastUpdateTime, lastUpdateTime,
          frameDelta, safeMode, eventsPermitted, nextId, log, hist,
          trigA, trigB, hashA, hashB, construction, keypressListeners,
          canvasListeners>>

(***************************************************************************)
(* Bounds of the model.                                                    *)
(***************************************************************************)
MaxClock == 4
MaxEvents == 2
MaxListeners == 2
MaxBindings == 2
MaxTicks == 4
MaxInitialize == 2

(***************************************************************************)
(* Generic helpers.                                                        *)
(***************************************************************************)
EmptyMap == [x \in {} |-> 0]

Put(f, k, v) == [x \in (DOMAIN f) \cup {k} |-> IF x = k THEN v ELSE f[x]]

Del(f, k) == [x \in (DOMAIN f) \ {k} |-> f[x]]

Abs(x) == IF x < 0 THEN -x ELSE x

RECURSIVE BitAnd(_, _)
BitAnd(a, b) ==
    IF a = 0 \/ b = 0 THEN 0
    ELSE (IF a % 2 = 1 /\ b % 2 = 1 THEN 1 ELSE 0) + 2 * BitAnd(a \div 2, b \div 2)

RECURSIVE BitOr(_, _)
BitOr(a, b) ==
    IF a = 0 THEN b
    ELSE IF b = 0 THEN a
    ELSE (IF a % 2 = 1 \/ b % 2 = 1 THEN 1 ELSE 0) + 2 * BitOr(a \div 2, b \div 2)

(***************************************************************************)
(* Trigger identity.  A function that falls off its end returns the        *)
(* JavaScript value undefined; Undefined stands for it (it is also the     *)
(* property key "undefined" when used to index bindings).                  *)
(***************************************************************************)
Undefined == -1

AXIS_X == 0
AXIS_Y == 1
AXIS_WHEEL == 2

keyHash(keyCode) ==
    IF keyCode >= 0 /\ keyCode <= 255 THEN BitAnd(keyCode, 255) ELSE Undefined

mouseButtonHash(mouseButton) ==
    IF mouseButton >= 0 /\ mouseButton <= 255
    THEN BitOr(256, BitAnd(mouseButton, 255))
    ELSE Undefined

mouseAxisHash(mouseAxis, negative) ==
    IF mouseAxis >= 0 /\ mouseAxis <= 255
    THEN BitOr(IF negative THEN 768 ELSE 512, BitAnd(mouseAxis, 255))
    ELSE Undefined

KeyTrigger(keyCode) == [negative |-> FALSE, type |-> "key", value |-> keyCode]

MouseButtonTrigger(mouseButton) ==
    [negative |-> FALSE, type |-> "button", value |-> mouseButton]

MouseAxisTrigger(mouseAxis, negative) ==
    [negative |-> negative, type |-> "axis", value |-> mouseAxis]

\* The constructors' checks with the axis bound one too high.
ConstructibleAxisUpTo3(t) ==
    CASE t.type = "key" -> TRUE
      [] t.type = "button" -> ~(t.value < 0)
      [] t.type = "axis" -> ~(t.value < 0 \/ t.value > 3)

\* The constructors' checks: which triggers can be constructed at all.
Constructible(t) ==
    CASE t.type = "key" -> TRUE
      [] t.type = "button" -> ~(t.value < 0)
      [] t.type = "axis" -> ~(t.value < 0 \/ t.value > 2)

\* new KeyTrigger(..), new MouseButtonTrigger(..), new MouseAxisTrigger(..) with
\* the arguments of t: the trigger object, or a thrown error and no object.
New(t) ==
    IF Constructible(t)
    THEN [trigger |-> t, threw |-> FALSE, object |-> <<t>>]
    ELSE [trigger |-> t, threw |-> TRUE, object |-> <<>>]

triggerHashCode(t) ==
    CASE t.type = "key" -> keyHash(t.value)
      [] t.type = "button" -> mouseButtonHash(t.value)
      [] t.type = "axis" -> mouseAxisHash(t.value, t.negative)

(***************************************************************************)
(* Time stamps and reals.                                                  *)
(***************************************************************************)
TZero == <<0, 0>>

TAdd(x, y) == <<x[1] + y[1], x[2] + y[2]>>

TSub(x, y) == <<x[1] - y[1], x[2] - y[2]>>

TLess(x, y) == x[1] < y[1] \/ (x[1] = y[1] /\ x[2] < y[2])

\* Math.max
TMax(x, y) == IF TLess(x, y) THEN y ELSE x

\* BrowserKeyInput.getInputTime: performance.now() * 1000000000
KeyInputTime(c) == <<c, 0>>

\* BrowserMouseInput.getInputTime: performance.now() / 1000.0
MouseInputTime(c) == <<0, c>>

Real(a, b, c) == [n |-> <<a, b>>, d |-> c]

RZero == Real(0, 0, 1)

ROne == Real(1, 0, 1)

RLess(x, y) == TLess(<<x.n[1] * y.d, x.n[2] * y.d>>, <<y.n[1] * x.d, y.n[2] * x.d>>)

REq(x, y) == ~RLess(x, y) /\ ~RLess(y, x)

\* x * (k / 1000): the product with a tick length of k thousandths of a second
RTimesTpf(x, k) == [n |-> <<x.n[1] * k, x.n[2] * k>>, d |-> x.d * 1000]

\* timeDelta / frameDelta; frameDelta is a difference of key-source readings
TDiv(x, y) == [n |-> x, d |-> y[1]]

\* FastMath.clamp
clamp(input, min, max) ==
    IF RLess(input, min) THEN min ELSE IF RLess(max, input) THEN max ELSE input

(***************************************************************************)
(* Program constants of the InputManager.                                  *)
(***************************************************************************)
\* update(): safeMode = tpf < 0.015, in thousandths of a second
SAFE_MODE_TPF == 15

\* globalAxisDeadZone = 0.05
globalAxisDeadZone == Real(5, 0, 100)

\* onMouseMotionEventQueued: Math.abs(delta) / 1024.0 and / 100.0
AXIS_DIVISOR == 1024
WHEEL_DIVISOR == 100

(***************************************************************************)
(* Listeners and events.  A listener object wraps a callback (ActionListener*)
(* or AnalogListener around an application function).  The callbacks in    *)
(* Reentrant call back into the engine while they run: they hand a new key *)
(* press to onKeyEvent.  An event object is identified by id.              *)
(***************************************************************************)
Reentrant == {"g"}

\* The callbacks that throw when called.
Throwing == {"x"}

\* KeyInput.KEY_SPACE, the key the demo application binds
KEY_SPACE == 32

REENTRANT_KEY == KEY_SPACE

ActionListener(cb) == [cb |-> cb, kind |-> "action"]

AnalogListener(cb) == [cb |-> cb, kind |-> "analog"]

InputMapping(name) == [name |-> name, triggers |-> <<>>, listeners |-> <<>>]

KeyInputEvent(id, keyCode, pressed, repeating, time, consumed) ==
    [kind |-> "key", id |-> id, pressed |-> pressed, repeating |-> repeating,
     time |-> time, consumed |-> consumed, code |-> keyCode, dx |-> 0,
     dy |-> 0, dw |-> 0]

MouseButtonEvent(id, btnIndex, pressed, time) ==
    [kind |-> "button", id |-> id, pressed |-> pressed, repeating |-> FALSE,
     time |-> time, consumed |-> FALSE, code |-> btnIndex, dx |-> 0,
     dy |-> 0, dw |-> 0]

MouseMotionEvent(id, dx, dy, deltaWheel, time) ==
    [kind |-> "motion", id |-> id, pressed |-> FALSE, repeating |-> FALSE,
     time |-> time, consumed |-> FALSE, code |-> 0, dx |-> dx,
     dy |-> dy, dw |-> deltaWheel]

(***************************************************************************)
(* The running state of one update() call: s.q is inputQueue, s.pb is      *)
(* pressedButtons, s.log the listener calls so far, s.nid the next event   *)
(* id, s.hist the observations.  ctx holds the fields update() set before  *)
(* the drain: tpf (frameTPF), safe (safeMode), fd (frameDelta).            *)
(***************************************************************************)
\* InputManager.onKeyEvent / onMouseButtonEvent / onMouseMotionEvent
onEvent(q, evt) == Append(q, evt)

\* What a call is made for: the hash, the event resolved (0 in the settling
\* phase), the phase and the held duration the value was computed from.
Cause(hash, ev, phase, td) == [hash |-> hash, ev |-> ev, phase |-> phase, td |-> td]

\* Statement sequencing: F runs on the state s left by what came before,
\* unless that left an exception in flight.
Then(s, F(_)) == CHOOSE r \in {IF y.hist.thrown THEN y ELSE F(y) : y \in {s}} : TRUE

\* One listener call: t is the mapping name, the listener and its index in
\* the mapping's listener list.  A reentrant callback pushes a key press while
\* the drain is running.  A throwing callback leaves an exception in flight
\* (s.hist.thrown): nothing in update() catches it, so every loop and every
\* statement sequence below stops where it is.
Invoke(s, ctx, t, pressed, value, c) ==
    LET e == [value |-> value, cb |-> t.l.cb, kind |-> t.l.kind, name |-> t.name,
              pressed |-> pressed, hash |-> c.hash, ev |-> c.ev,
              phase |-> c.phase, td |-> c.td, idx |-> t.idx, tpf |-> ctx.tpf]
        s1 == [s EXCEPT !.log = Append(@, e)]
    IN  IF t.l.cb \in Throwing THEN [s1 EXCEPT !.hist.thrown = TRUE]
        ELSE IF t.l.cb \in Reentrant /\ s1.nid <= MaxEvents
        THEN [s1 EXCEPT
                !.q = onEvent(@, KeyInputEvent(s1.nid, REENTRANT_KEY, TRUE, FALSE,
                                               KeyInputTime(clock), FALSE)),
                !.nid = @ + 1,
                !.hist.deferred = @ \cup {s1.nid}]
        ELSE s1

\* The listeners of one mapping visited from the first registered to the last.
RECURSIVE ListenersAscending(_, _)
ListenersAscending(name, j) ==
    IF j < 1 THEN <<>>
    ELSE ListenersAscending(name, j - 1)
         \o <<[name |-> name, l |-> mappings[name].listeners[j], idx |-> j]>>

\* The listeners of one mapping in the order the loops visit them:
\* for (j = listenerSize - 1; j >= 0; j--)
RECURSIVE ListenersFrom(_, _)
ListenersFrom(name, j) ==
    IF j < 1 THEN <<>>
    ELSE <<[name |-> name, l |-> mappings[name].listeners[j], idx |-> j]>>
         \o ListenersFrom(name, j - 1)

\* The mappings of one hash visited from the first bound to the last.
RECURSIVE MappingsAscending(_, _)
MappingsAscending(maps, i) ==
    IF i < 1 THEN <<>>
    ELSE MappingsAscending(maps, i - 1)
         \o ListenersFrom(maps[i], Len(mappings[maps[i]].listeners))

\* The mappings of one hash in the order the loops visit them:
\* for (i = size - 1; i >= 0; i--)
RECURSIVE MappingsFrom(_, _)
MappingsFrom(maps, i) ==
    IF i < 1 THEN <<>>
    ELSE ListenersFrom(maps[i], Len(mappings[maps[i]].listeners))
         \o MappingsFrom(maps, i - 1)

Targets(maps) == MappingsFrom(maps, Len(maps))

\* the listener loop going on after a listener has thrown
RECURSIVE callActionsPastThrow(_, _, _, _, _)
callActionsPastThrow(s, ctx, ts, pressed, c) ==
    IF ts = <<>> THEN s
    ELSE LET t == Head(ts)
             s1 == IF t.l.kind = "action"
                   THEN Invoke(s, ctx, t, pressed, RZero, c)
                   ELSE s
         IN  callActionsPastThrow(s1, ctx, Tail(ts), pressed, c)

RECURSIVE callActions(_, _, _, _, _)
callActions(s, ctx, ts, pressed, c) ==
    IF ts = <<>> THEN s
    ELSE LET t == Head(ts)
         IN  Then(s, LAMBDA y :
                 callActions(IF t.l.kind = "action"
                             THEN Invoke(y, ctx, t, pressed, RZero, c)
                             ELSE y,
                             ctx, Tail(ts), pressed, c))

\* invokeActions visiting the last bound mapping only
invokeActionsLastMapping(s, ctx, hash, pressed, ev) ==
    IF hash \notin DOMAIN bindings \/ Len(bindings[hash]) <= 0 THEN s
    ELSE callActions(s, ctx, Targets(<<bindings[hash][Len(bindings[hash])]>>), pressed,
                     Cause(hash, ev, "resolve", TZero))

invokeActions(s, ctx, hash, pressed, ev) ==
    IF hash \notin DOMAIN bindings \/ Len(bindings[hash]) <= 0 THEN s
    ELSE callActions(s, ctx, Targets(bindings[hash]), pressed,
                     Cause(hash, ev, "resolve", TZero))

RECURSIVE callAnalogs(_, _, _, _, _)
callAnalogs(s, ctx, ts, value, c) ==
    IF ts = <<>> THEN s
    ELSE LET t == Head(ts)
         IN  Then(s, LAMBDA y :
                 callAnalogs(IF t.l.kind = "analog"
                             THEN Invoke(y, ctx, t, FALSE, value, c)
                             ELSE y,
                             ctx, Tail(ts), value, c))

\* invokeAnalogs without the product with frameTPF
invokeAnalogsUnscaled(s, ctx, hash, value, isAxis, c) ==
    IF hash \notin DOMAIN bindings THEN s
    ELSE callAnalogs(s, ctx, Targets(bindings[hash]), value, c)

invokeAnalogs(s, ctx, hash, value, isAxis, c) ==
    IF hash \notin DOMAIN bindings THEN s
    ELSE LET v == IF ~isAxis THEN RTimesTpf(value, ctx.tpf) ELSE value
         IN  callAnalogs(s, ctx, Targets(bindings[hash]), v, c)

\* computeAnalogValue without FastMath.clamp
computeAnalogValueUnclamped(ctx, timeDelta) ==
    IF ctx.safe \/ ctx.fd = TZero THEN ROne
    ELSE TDiv(timeDelta, ctx.fd)

\* computeAnalogValue without the test of safeMode
computeAnalogValueDivides(ctx, timeDelta) ==
    IF ctx.fd = TZero THEN ROne
    ELSE clamp(TDiv(timeDelta, ctx.fd), RZero, ROne)

computeAnalogValue(ctx, timeDelta) ==
    IF ctx.safe \/ ctx.fd = TZero THEN ROne
    ELSE clamp(TDiv(timeDelta, ctx.fd), RZero, ROne)

\* The observation kept for a hash while pressedButtons holds a press start.
Hold(time, presses) ==
    [presses |-> presses, press |-> time, sum |-> TZero, settles |-> 0, ticks |-> 0]

\* invokeTimedActions measuring a release from the tick boundary alone,
\* whatever the press start
invokeTimedActionsFromBoundary(s, ctx, hash, time, pressed, ev) ==
    IF hash \notin DOMAIN bindings THEN s
    ELSE IF pressed
    THEN LET n == IF hash \in DOMAIN s.hist.holds
                  THEN s.hist.holds[hash].presses + 1 ELSE 1
         IN  [s EXCEPT !.pb = Put(@, hash, time),
                       !.hist.holds = Put(@, hash, Hold(time, n))]
    ELSE LET has == hash \in DOMAIN s.pb
             s1 == [s EXCEPT !.pb = Del(@, hash), !.hist.holds = Del(@, hash)]
         IN  IF ~has THEN s1
             ELSE LET pressTime == s.pb[hash]
                      lastUpdate == lastLastUpdateTime
                      timeDelta == TSub(time, lastUpdate)
                      emits == pressTime # TZero /\ TLess(TZero, timeDelta)
                      h == s.hist.holds[hash]
                      s2 == [s1 EXCEPT !.hist.done = Append(@,
                                [hash |-> hash, ev |-> ev, td |-> timeDelta,
                                 presses |-> h.presses,
                                 press |-> pressTime,
                                 sum |-> IF emits THEN TAdd(h.sum, timeDelta) ELSE h.sum,
                                 settles |-> h.settles, ticks |-> h.ticks,
                                 release |-> time, analog |-> emits,
                                 boundary |-> lastUpdate])]
                  IN  IF pressTime = TZero THEN s2
                      ELSE IF TLess(TZero, timeDelta)
                      THEN invokeAnalogs(s2, ctx, hash, computeAnalogValue(ctx, timeDelta),
                                         FALSE, Cause(hash, ev, "resolve", timeDelta))
                      ELSE s2

\* invokeTimedActions recording the press start of a hash nothing is bound to
invokeTimedActionsUnbound(s, ctx, hash, time, pressed, ev) ==
    IF pressed
    THEN [s EXCEPT !.pb = Put(@, hash, time),
                   !.hist.holds = Put(@, hash, Hold(time, 1))]
    ELSE [s EXCEPT !.pb = Del(@, hash), !.hist.holds = Del(@, hash)]

\* invokeTimedActions keeping the press start of a hash that is already held
invokeTimedActionsKeepsFirst(s, ctx, hash, time, pressed, ev) ==
    IF hash \notin DOMAIN bindings THEN s
    ELSE IF pressed
    THEN LET n == IF hash \in DOMAIN s.hist.holds
                  THEN s.hist.holds[hash].presses + 1 ELSE 1
         IN  [s EXCEPT !.pb = IF hash \in DOMAIN @ THEN @ ELSE Put(@, hash, time),
                       !.hist.holds = Put(@, hash, Hold(time, n))]
    ELSE LET has == hash \in DOMAIN s.pb
             s1 == [s EXCEPT !.pb = Del(@, hash), !.hist.holds = Del(@, hash)]
         IN  IF ~has THEN s1
             ELSE LET pressTime == s.pb[hash]
                      lastUpdate == lastLastUpdateTime
                      timeDelta == TSub(time, TMax(pressTime, lastUpdate))
                      emits == pressTime # TZero /\ TLess(TZero, timeDelta)
                      h == s.hist.holds[hash]
                      s2 == [s1 EXCEPT !.hist.done = Append(@,
                                [hash |-> hash, ev |-> ev, td |-> timeDelta,
                                 presses |-> h.presses,
                                 press |-> pressTime,
                                 sum |-> IF emits THEN TAdd(h.sum, timeDelta) ELSE h.sum,
                                 settles |-> h.settles, ticks |-> h.ticks,
                                 release |-> time, analog |-> emits,
                                 boundary |-> lastUpdate])]
                  IN  IF pressTime = TZero THEN s2
                      ELSE IF TLess(TZero, timeDelta)
                      THEN invokeAnalogs(s2, ctx, hash, computeAnalogValue(ctx, timeDelta),
                                         FALSE, Cause(hash, ev, "resolve", timeDelta))
                      ELSE s2

invokeTimedActions(s, ctx, hash, time, pressed, ev) ==
    IF hash \notin DOMAIN bindings THEN s
    ELSE IF pressed
    THEN LET n == IF hash \in DOMAIN s.hist.holds
                  THEN s.hist.holds[hash].presses + 1 ELSE 1
         IN  [s EXCEPT !.pb = Put(@, hash, time),
                       !.hist.holds = Put(@, hash, Hold(time, n))]
    ELSE LET has == hash \in DOMAIN s.pb
             s1 == [s EXCEPT !.pb = Del(@, hash), !.hist.holds = Del(@, hash)]
         IN  IF ~has THEN s1
             ELSE LET pressTime == s.pb[hash]
                      lastUpdate == lastLastUpdateTime
                      timeDelta == TSub(time, TMax(pressTime, lastUpdate))
                      emits == pressTime # TZero /\ TLess(TZero, timeDelta)
                      h == s.hist.holds[hash]
                      s2 == [s1 EXCEPT !.hist.done = Append(@,
                                [hash |-> hash, ev |-> ev, td |-> timeDelta,
                                 presses |-> h.presses,
                                 press |-> pressTime,
                                 sum |-> IF emits THEN TAdd(h.sum, timeDelta) ELSE h.sum,
                                 settles |-> h.settles, ticks |-> h.ticks,
                                 release |-> time, analog |-> emits,
                                 boundary |-> lastUpdate])]
                  IN  IF pressTime = TZero THEN s2
                      ELSE IF TLess(TZero, timeDelta)
                      THEN invokeAnalogs(s2, ctx, hash, computeAnalogValue(ctx, timeDelta),
                                         FALSE, Cause(hash, ev, "resolve", timeDelta))
                      ELSE s2

RECURSIVE callAxis(_, _, _, _, _, _)
callAxis(s, ctx, ts, value, valueChanged, c) ==
    IF ts = <<>> THEN s
    ELSE LET t == Head(ts)
         IN  Then(s, LAMBDA y :
                 callAxis(IF t.l.kind = "action" /\ valueChanged
                          THEN Invoke(y, ctx, t, TRUE, RZero, c)
                          ELSE IF t.l.kind = "analog"
                          THEN Invoke(y, ctx, t, FALSE, value, c)
                          ELSE y,
                          ctx, Tail(ts), value, valueChanged, c))

\* invokeAnalogsAndActions calling nobody below the dead zone
invokeAnalogsAndActionsSilent(s, ctx, hash, value, effectiveDeadZone, applyTpf, ev) ==
    IF RLess(value, effectiveDeadZone) THEN s
    ELSE IF hash \notin DOMAIN bindings THEN s
    ELSE LET valueChanged == hash \notin DOMAIN axisValues \/ axisValues[hash] = RZero
             v == IF applyTpf THEN RTimesTpf(value, ctx.tpf) ELSE value
         IN  callAxis(s, ctx, Targets(bindings[hash]), v, valueChanged,
                      Cause(hash, ev, "resolve", TZero))

\* invokeAnalogsAndActions multiplying by frameTPF whatever applyTpf is
invokeAnalogsAndActionsScaled(s, ctx, hash, value, effectiveDeadZone, applyTpf, ev) ==
    IF RLess(value, effectiveDeadZone)
    THEN invokeAnalogs(s, ctx, hash, value, ~applyTpf, Cause(hash, ev, "resolve", TZero))
    ELSE IF hash \notin DOMAIN bindings THEN s
    ELSE LET valueChanged == hash \notin DOMAIN axisValues \/ axisValues[hash] = RZero
             v == RTimesTpf(value, ctx.tpf)
         IN  callAxis(s, ctx, Targets(bindings[hash]), v, valueChanged,
                      Cause(hash, ev, "resolve", TZero))

invokeAnalogsAndActions(s, ctx, hash, value, effectiveDeadZone, applyTpf, ev) ==
    IF RLess(value, effectiveDeadZone)
    THEN invokeAnalogs(s, ctx, hash, value, ~applyTpf, Cause(hash, ev, "resolve", TZero))
    ELSE IF hash \notin DOMAIN bindings THEN s
    ELSE LET valueChanged == hash \notin DOMAIN axisValues \/ axisValues[hash] = RZero
             v == IF applyTpf THEN RTimesTpf(value, ctx.tpf) ELSE value
         IN  callAxis(s, ctx, Targets(bindings[hash]), v, valueChanged,
                      Cause(hash, ev, "resolve", TZero))

\* onKeyEventQueued without the test of isRepeating
onKeyEventQueuedRepeats(s, ctx, evt) ==
    LET hash == keyHash(evt.code)
    IN  Then(invokeActions(s, ctx, hash, evt.pressed, evt.id), LAMBDA y :
            invokeTimedActions(y, ctx, hash, evt.time, evt.pressed, evt.id))

onKeyEventQueued(s, ctx, evt) ==
    IF evt.repeating THEN s
    ELSE LET hash == keyHash(evt.code)
         IN  Then(invokeActions(s, ctx, hash, evt.pressed, evt.id), LAMBDA y :
                 invokeTimedActions(y, ctx, hash, evt.time, evt.pressed, evt.id))

onMouseButtonEventQueued(s, ctx, evt) ==
    LET hash == mouseButtonHash(evt.code)
    IN  Then(invokeActions(s, ctx, hash, evt.pressed, evt.id), LAMBDA y :
            invokeTimedActions(y, ctx, hash, evt.time, evt.pressed, evt.id))

onMouseMotionEventQueued(s, ctx, evt) ==
    LET s1 == IF evt.dx # 0
              THEN invokeAnalogsAndActions(s, ctx, mouseAxisHash(AXIS_X, evt.dx < 0),
                       Real(Abs(evt.dx), 0, AXIS_DIVISOR), globalAxisDeadZone, FALSE, evt.id)
              ELSE s
        s2 == IF evt.dy # 0
              THEN Then(s1, LAMBDA y :
                       invokeAnalogsAndActions(y, ctx, mouseAxisHash(AXIS_Y, evt.dy < 0),
                           Real(Abs(evt.dy), 0, AXIS_DIVISOR), globalAxisDeadZone, FALSE,
                           evt.id))
              ELSE s1
    IN  IF evt.dw # 0
        THEN Then(s2, LAMBDA y :
                 invokeAnalogsAndActions(y, ctx, mouseAxisHash(AXIS_WHEEL, evt.dw < 0),
                     Real(Abs(evt.dw), 0, WHEEL_DIVISOR), globalAxisDeadZone, FALSE, evt.id))
        ELSE s2

\* processQueue, first loop: every raw listener is handed the events of the
\* snapshot that are not consumed, between beginInput and endInput.
RECURSIVE rawEvents(_, _, _)
rawEvents(q, j, queueSize) ==
    IF j > queueSize THEN <<>>
    ELSE (IF q[j].consumed THEN <<>> ELSE <<q[j].id>>) \o rawEvents(q, j + 1, queueSize)

RECURSIVE rawPass(_, _, _)
rawPass(s, ls, queueSize) ==
    IF ls = <<>> THEN s
    ELSE rawPass([s EXCEPT !.hist.raw = Append(@,
                     [listener |-> Head(ls), events |-> rawEvents(s.q, 1, queueSize)])],
                 Tail(ls), queueSize)

\* The second loop without its test of the consumed flag.
RECURSIVE resolveFromNoSkip(_, _, _, _)
resolveFromNoSkip(s, ctx, i, queueSize) ==
    IF i > queueSize THEN s
    ELSE Then(s, LAMBDA y :
        LET event == y.q[i]
            s0 == [y EXCEPT !.hist.resolved[event.id] = @ + 1,
                            !.hist.order = Append(@, event)]
            s1 == CASE event.kind = "motion" -> onMouseMotionEventQueued(s0, ctx, event)
                    [] event.kind = "key" -> onKeyEventQueued(s0, ctx, event)
                    [] event.kind = "button" -> onMouseButtonEventQueued(s0, ctx, event)
            s2 == Then(s1, LAMBDA z : [z EXCEPT !.q[i].consumed = TRUE,
                                                !.hist.marked[event.id] = @ + 1])
        IN  resolveFromNoSkip(s2, ctx, i + 1, queueSize))

\* processQueue, second loop
RECURSIVE resolveFrom(_, _, _, _)
resolveFrom(s, ctx, i, queueSize) ==
    IF i > queueSize THEN s
    ELSE Then(s, LAMBDA y :
        LET event == y.q[i]
        IN  IF event.consumed THEN resolveFrom(y, ctx, i + 1, queueSize)
            ELSE LET s0 == [y EXCEPT !.hist.resolved[event.id] = @ + 1,
                                     !.hist.order = Append(@, event)]
                     s1 == CASE event.kind = "motion" -> onMouseMotionEventQueued(s0, ctx, event)
                             [] event.kind = "key" -> onKeyEventQueued(s0, ctx, event)
                             [] event.kind = "button" -> onMouseButtonEventQueued(s0, ctx, event)
                     s2 == Then(s1, LAMBDA z : [z EXCEPT !.q[i].consumed = TRUE,
                                                         !.hist.marked[event.id] = @ + 1])
                 IN  resolveFrom(s2, ctx, i + 1, queueSize))

\* processQueue without the final this.inputQueue = []
processQueueKeepsQueue(s, ctx) ==
    LET queueSize == Len(s.q)
        s1 == rawPass(s, rawListeners, queueSize)
    IN  resolveFrom(s1, ctx, 1, queueSize)

processQueue(s, ctx) ==
    LET queueSize == Len(s.q)
        s1 == rawPass(s, rawListeners, queueSize)
        s2 == resolveFrom(s1, ctx, 1, queueSize)
    IN  Then(s2, LAMBDA y : [y EXCEPT !.q = <<>>])

Min(S) == CHOOSE x \in S : \A y \in S : x <= y

\* The first loop measuring from the press instead of from the later of the
\* press and the previous tick boundary.
RECURSIVE settleHeldCumulative(_, _, _)
settleHeldCumulative(s, ctx, todo) ==
    IF todo = {} THEN s
    ELSE Then(s, LAMBDA y :
        LET hash == Min(todo)
            pressTime == y.pb[hash]
            timeDelta == TSub(lastUpdateTime, pressTime)
            emits == hash # Undefined /\ TLess(TZero, timeDelta)
            h == y.hist.holds[hash]
            s1 == [y EXCEPT !.hist.holds[hash] =
                       [h EXCEPT !.ticks = @ + 1,
                                 !.settles = IF emits THEN @ + 1 ELSE @,
                                 !.sum = IF emits THEN TAdd(@, timeDelta) ELSE @],
                              !.hist.settled = @ \cup {hash}]
            s2 == IF emits
                  THEN invokeAnalogs(s1, ctx, hash, computeAnalogValue(ctx, timeDelta),
                                     FALSE, Cause(hash, 0, "settle", timeDelta))
                  ELSE s1
        IN  settleHeldCumulative(s2, ctx, todo \ {hash}))

\* The first loop measuring up to the clock reading of the running update()
\* instead of up to the previous one.
RECURSIVE settleHeldCurrentTick(_, _, _)
settleHeldCurrentTick(s, ctx, todo) ==
    IF todo = {} THEN s
    ELSE Then(s, LAMBDA y :
        LET hash == Min(todo)
            pressTime == y.pb[hash]
            currentTime == TAdd(lastUpdateTime, ctx.fd)
            timeDelta == TSub(currentTime, TMax(lastUpdateTime, pressTime))
            emits == hash # Undefined /\ TLess(TZero, timeDelta)
            h == y.hist.holds[hash]
            s1 == [y EXCEPT !.hist.holds[hash] =
                       [h EXCEPT !.ticks = @ + 1,
                                 !.settles = IF emits THEN @ + 1 ELSE @,
                                 !.sum = IF emits THEN TAdd(@, timeDelta) ELSE @],
                              !.hist.settled = @ \cup {hash}]
            s2 == IF emits
                  THEN invokeAnalogs(s1, ctx, hash, computeAnalogValue(ctx, timeDelta),
                                     FALSE, Cause(hash, 0, "settle", timeDelta))
                  ELSE s1
        IN  settleHeldCurrentTick(s2, ctx, todo \ {hash}))

\* The first loop measuring the whole previous tick, whenever the key was
\* pressed.
RECURSIVE settleHeldFromBoundary(_, _, _)
settleHeldFromBoundary(s, ctx, todo) ==
    IF todo = {} THEN s
    ELSE Then(s, LAMBDA y :
        LET hash == Min(todo)
            pressTime == y.pb[hash]
            timeDelta == TSub(lastUpdateTime, lastLastUpdateTime)
            emits == hash # Undefined /\ TLess(TZero, timeDelta)
            h == y.hist.holds[hash]
            s1 == [y EXCEPT !.hist.holds[hash] =
                       [h EXCEPT !.ticks = @ + 1,
                                 !.settles = IF emits THEN @ + 1 ELSE @,
                                 !.sum = IF emits THEN TAdd(@, timeDelta) ELSE @],
                              !.hist.settled = @ \cup {hash}]
            s2 == IF emits
                  THEN invokeAnalogs(s1, ctx, hash, computeAnalogValue(ctx, timeDelta),
                                     FALSE, Cause(hash, 0, "settle", timeDelta))
                  ELSE s1
        IN  settleHeldFromBoundary(s2, ctx, todo \ {hash}))

\* invokeUpdateActions, first loop: for (hashKey in this.pressedButtons), which
\* visits integer keys in ascending order.  The key "undefined" parses to NaN
\* and yields a NaN timeDelta, which is not > 0.
RECURSIVE settleHeld(_, _, _)
settleHeld(s, ctx, todo) ==
    IF todo = {} THEN s
    ELSE Then(s, LAMBDA y :
        LET hash == Min(todo)
            pressTime == y.pb[hash]
            timeDelta == TSub(lastUpdateTime, TMax(lastLastUpdateTime, pressTime))
            emits == hash # Undefined /\ TLess(TZero, timeDelta)
            h == y.hist.holds[hash]
            s1 == [y EXCEPT !.hist.holds[hash] =
                       [h EXCEPT !.ticks = @ + 1,
                                 !.settles = IF emits THEN @ + 1 ELSE @,
                                 !.sum = IF emits THEN TAdd(@, timeDelta) ELSE @],
                              !.hist.settled = @ \cup {hash}]
            s2 == IF emits
                  THEN invokeAnalogs(s1, ctx, hash, computeAnalogValue(ctx, timeDelta),
                                     FALSE, Cause(hash, 0, "settle", timeDelta))
                  ELSE s1
        IN  settleHeld(s2, ctx, todo \ {hash}))

\* invokeUpdateActions, second loop: for (hashKey in this.axisValues)
RECURSIVE settleAxes(_, _, _)
settleAxes(s, ctx, todo) ==
    IF todo = {} THEN s
    ELSE LET hash == Min(todo)
         IN  Then(s, LAMBDA y :
                 settleAxes(invokeAnalogs(y, ctx, hash, RTimesTpf(axisValues[hash], ctx.tpf),
                                          TRUE, Cause(hash, 0, "settle", TZero)),
                            ctx, todo \ {hash}))

invokeUpdateActions(s, ctx) ==
    settleAxes(settleHeld(s, ctx, DOMAIN s.pb), ctx, DOMAIN axisValues)

(***************************************************************************)
(* The browser raw input sources.                                          *)
(***************************************************************************)
\* while (buffer.length > 0) listener.onXEvent(buffer.pop())
RECURSIVE popAll(_, _)
popAll(q, buffer) ==
    IF buffer = <<>> THEN q
    ELSE popAll(onEvent(q, buffer[Len(buffer)]), SubSeq(buffer, 1, Len(buffer) - 1))

BrowserKeyInputUpdate(q) == popAll(q, keyInputEvents)

BrowserMouseInputUpdate(q) == popAll(popAll(q, mouseMotionEvents), mouseButtonEvents)

\* Key codes the browser key source lets through (0 .. KeyInput.KEY_LAST)
KEY_LAST == 255

\* BrowserMouseInput.convertButton
convertButton(button) ==
    CASE button = 0 -> 0
      [] button = 1 -> 2
      [] button = 2 -> 1
      [] button = 3 -> 3
      [] button = 4 -> 4
      [] OTHER -> button

(***************************************************************************)
(* Initial state: the sources and the InputManager as constructed.         *)
(***************************************************************************)
NoTrigger == [negative |-> FALSE, type |-> "none", value |-> 0]

HistInit ==
    [thrown |-> FALSE,
     deferred |-> {},
     holds |-> EmptyMap,
     done |-> <<>>,
     raw |-> <<>>,
     resolved |-> [i \in 1..MaxEvents |-> 0],
     order |-> <<>>,
     marked |-> [i \in 1..MaxEvents |-> 0],
     settled |-> {},
     suppressed |-> {},
     occurrence |-> <<>>,
     watch |-> FALSE,
     rebound |-> {},
     added |-> {},
     early |-> {},
     physical |-> EmptyMap]

EngineInit ==
    /\ clock = 0
    /\ keyInputEvents = <<>>
    /\ mouseMotionEvents = <<>>
    /\ mouseButtonEvents = <<>>
    /\ mappings = EmptyMap
    /\ bindings = EmptyMap
    /\ inputQueue = <<>>
    /\ rawListeners = <<>>
    /\ pressedButtons = EmptyMap
    /\ axisValues = EmptyMap
    /\ frameTPF = 0
    /\ lastLastUpdateTime = TZero
    /\ lastUpdateTime = TZero
    /\ frameDelta = TZero
    /\ safeMode = FALSE
    /\ eventsPermitted = FALSE
    /\ nextId = 1
    /\ log = <<>>
    /\ hashA = <<>>
    /\ hashB = <<>>

NoConstruction == [trigger |-> NoTrigger, threw |-> FALSE, object |-> <<>>]

\* The listeners one initialize() of each raw source leaves on the document
\* and on the canvas.
Handler(type, fn) == [type |-> type, fn |-> fn]

MouseHandlers ==
    <<Handler("mousemove", "onCursorPos"), Handler("mousewheel", "onWheelScroll"),
      Handler("mousedown", "onMouseButtonDown"), Handler("mouseup", "onMouseButtonUp")>>

SourcesInitialized ==
    /\ keypressListeners = <<1>>
    /\ canvasListeners = MouseHandlers \o <<Handler("resize", 1)>>

\* The engine constructed, its raw sources initialized once.
Init ==
    /\ EngineInit
    /\ hist = HistInit
    /\ trigA = NoTrigger
    /\ trigB = NoTrigger
    /\ construction = NoConstruction
    /\ SourcesInitialized

hashVars == <<trigA, trigB, hashA, hashB, construction>>

domVars == <<keypressListeners, canvasListeners>>

sourceVars == <<keyInputEvents, mouseMotionEvents, mouseButtonEvents>>

tableVars == <<mappings, bindings, rawListeners, axisValues>>

timingVars == <<pressedButtons, frameTPF, lastLastUpdateTime, lastUpdateTime,
                frameDelta, safeMode, eventsPermitted>>

\* What a step other than update() leaves of the observations: the calls and
\* orders recorded belong to the last update() only.
QuietHist ==
    [hist EXCEPT !.done = <<>>, !.raw = <<>>, !.order = <<>>, !.rebound = {},
                 !.thrown = FALSE, !.occurrence = <<>>, !.settled = {}]

Quiet ==
    /\ log' = <<>>
    /\ hist' = QuietHist

(***************************************************************************)
(* Time passes.                                                            *)
(***************************************************************************)
Tick ==
    /\ clock < MaxClock
    /\ clock' = clock + 1
    /\ Quiet
    /\ UNCHANGED <<sourceVars, tableVars, timingVars, inputQueue, nextId, hashVars, domVars>>

(***************************************************************************)
(* Registration.                                                           *)
(***************************************************************************)
Range(f) == {f[x] : x \in DOMAIN f}

\* a new InputMapping on every reference of the name
ensureMappingFresh(m, mappingName) == Put(m, mappingName, InputMapping(mappingName))

ensureMapping(m, mappingName) ==
    IF mappingName \in DOMAIN m THEN m ELSE Put(m, mappingName, InputMapping(mappingName))

\* bindTrigger without mapping.triggers.push(hash)
bindTriggerOneWay(mb, mappingName, trigger) ==
    LET hash == triggerHashCode(trigger)
        names == IF hash \in DOMAIN mb.b THEN mb.b[hash] ELSE <<>>
    IN  IF mappingName \notin Range(names)
        THEN [b |-> Put(mb.b, hash, Append(names, mappingName)), m |-> mb.m]
        ELSE [b |-> Put(mb.b, hash, names), m |-> mb.m]

\* bindTrigger without the names.indexOf(mapping) test
bindTriggerAlways(mb, mappingName, trigger) ==
    LET hash == triggerHashCode(trigger)
        names == IF hash \in DOMAIN mb.b THEN mb.b[hash] ELSE <<>>
    IN  [b |-> Put(mb.b, hash, Append(names, mappingName)),
         m |-> [mb.m EXCEPT ![mappingName].triggers = Append(@, hash)]]

\* The body of addMapping's forEach for one trigger; mb = [m, b] are the
\* mappings and bindings so far.
bindTrigger(mb, mappingName, trigger) ==
    LET hash == triggerHashCode(trigger)
        names == IF hash \in DOMAIN mb.b THEN mb.b[hash] ELSE <<>>
    IN  IF mappingName \notin Range(names)
        THEN [b |-> Put(mb.b, hash, Append(names, mappingName)),
              m |-> [mb.m EXCEPT ![mappingName].triggers = Append(@, hash)]]
        ELSE [b |-> Put(mb.b, hash, names), m |-> mb.m]

\* addMapping binding the first trigger of the call only
bindAllHeadOnly(mb, mappingName, triggers) ==
    IF triggers = <<>> THEN mb ELSE bindTrigger(mb, mappingName, Head(triggers))

RECURSIVE bindAll(_, _, _)
bindAll(mb, mappingName, triggers) ==
    IF triggers = <<>> THEN mb
    ELSE bindAll(bindTrigger(mb, mappingName, Head(triggers)), mappingName, Tail(triggers))

addMapping(mappingName, triggers) ==
    bindAll([b |-> bindings, m |-> ensureMapping(mappings, mappingName)],
            mappingName, triggers)

RECURSIVE SumLen(_, _)
SumLen(f, S) ==
    IF S = {} THEN 0
    ELSE LET x == CHOOSE y \in S : TRUE IN Len(f[x]) + SumLen(f, S \ {x})

BindingCount(b) == SumLen(b, DOMAIN b)

ListenerCount(m) == SumLen([x \in DOMAIN m |-> m[x].listeners], DOMAIN m)

\* Observation, kept where hist.watch is set: the (mapping, hash) pairs of
\* this call that were bound before the trigger carrying them was reached, by
\* an earlier call or an earlier trigger of the same call.
Rebound(mappingName, triggers) ==
    IF ~hist.watch THEN {} ELSE
    {[name |-> mappingName, hash |-> triggerHashCode(triggers[i])] :
        i \in {i \in DOMAIN triggers :
                  \/ /\ mappingName \in DOMAIN mappings
                     /\ triggerHashCode(triggers[i]) \in Range(mappings[mappingName].triggers)
                  \/ \E j \in 1..(i - 1) :
                        triggerHashCode(triggers[j]) = triggerHashCode(triggers[i])}}

AddMapping(mappingName, triggers) ==
    /\ \A i \in DOMAIN triggers : Constructible(triggers[i])
    /\ LET mb == addMapping(mappingName, triggers)
       IN  /\ BindingCount(mb.b) <= MaxBindings
           /\ mappings' = mb.m
           /\ bindings' = mb.b
    /\ log' = <<>>
    /\ hist' = [QuietHist EXCEPT
                   !.rebound = Rebound(mappingName, triggers),
                   !.added = @ \cup {[trigger |-> triggers[i], name |-> mappingName] :
                                        i \in DOMAIN triggers}]
    /\ UNCHANGED <<clock, sourceVars, rawListeners, axisValues, timingVars,
                   inputQueue, nextId, hashVars, domVars>>

\* mapListener: one listener object for all the names of the call; done holds
\* the names whose mapping already received it (listeners.indexOf(listener) >= 0).
RECURSIVE mapListenerFrom(_, _, _, _)
mapListenerFrom(m, listener, mappingNames, done) ==
    IF mappingNames = <<>> THEN m
    ELSE LET mappingName == Head(mappingNames)
             m1 == ensureMapping(m, mappingName)
             m2 == IF mappingName \notin done
                   THEN [m1 EXCEPT ![mappingName].listeners = Append(@, listener)]
                   ELSE m1
         IN  mapListenerFrom(m2, listener, Tail(mappingNames), done \cup {mappingName})

mapListener(listener, mappingNames) ==
    mapListenerFrom(mappings, listener, mappingNames, {})

\* Observation, kept where hist.watch is set: the listeners (mapping name,
\* position) that the call producing m appended to a mapping with no trigger.
Early(m) ==
    IF ~hist.watch THEN {} ELSE
    {e \in [name : DOMAIN m, idx : 1..MaxListeners] :
        /\ m[e.name].triggers = <<>>
        /\ e.idx \in DOMAIN m[e.name].listeners
        /\ e.name \in DOMAIN mappings => e.idx \notin DOMAIN mappings[e.name].listeners}

AddListener(cb, mappingNames) ==
    /\ LET m == mapListener(ActionListener(cb), mappingNames)
       IN  /\ ListenerCount(m) <= MaxListeners
           /\ mappings' = m
           /\ hist' = [QuietHist EXCEPT !.early = @ \cup Early(m)]
    /\ log' = <<>>
    /\ UNCHANGED <<clock, sourceVars, bindings, rawListeners, axisValues, timingVars,
                   inputQueue, nextId, hashVars, domVars>>

AddAnalogListener(cb, mappingNames) ==
    /\ LET m == mapListener(AnalogListener(cb), mappingNames)
       IN  /\ ListenerCount(m) <= MaxListeners
           /\ mappings' = m
           /\ hist' = [QuietHist EXCEPT !.early = @ \cup Early(m)]
    /\ log' = <<>>
    /\ UNCHANGED <<clock, sourceVars, bindings, rawListeners, axisValues, timingVars,
                   inputQueue, nextId, hashVars, domVars>>

(***************************************************************************)
(* Events observed by the browser sources (DOM callbacks).                 *)
(***************************************************************************)
\* BrowserKeyInput.onKeypress
onKeypress(st, keyCode, repeat) ==
    IF keyCode < 0 \/ keyCode > KEY_LAST THEN st
    ELSE [nid |-> st.nid + 1,
          buf |-> Append(st.buf, KeyInputEvent(st.nid, keyCode, TRUE, repeat,
                                               KeyInputTime(clock), FALSE))]

\* BrowserMouseInput.onMouseButtonDown / onMouseButtonUp
onMouseButton(st, button, pressed) ==
    [nid |-> st.nid + 1,
     buf |-> Append(st.buf, MouseButtonEvent(st.nid, convertButton(button), pressed,
                                             MouseInputTime(clock)))]

\* One call of the 'keypress' listener
OnKeypress(keyCode, repeat) ==
    LET st == onKeypress([nid |-> nextId, buf |-> keyInputEvents], keyCode, repeat)
    IN  /\ nextId <= MaxEvents
        /\ keyInputEvents' = st.buf
        /\ nextId' = st.nid
        /\ Quiet
        /\ UNCHANGED <<clock, mouseMotionEvents, mouseButtonEvents, tableVars,
                       timingVars, inputQueue, hashVars, domVars>>

\* One call of the 'mousedown' or of the 'mouseup' listener
OnMouseButton(button, pressed) ==
    LET st == onMouseButton([nid |-> nextId, buf |-> mouseButtonEvents], button, pressed)
    IN  /\ nextId <= MaxEvents
        /\ mouseButtonEvents' = st.buf
        /\ nextId' = st.nid
        /\ Quiet
        /\ UNCHANGED <<clock, keyInputEvents, mouseMotionEvents, tableVars,
                       timingVars, inputQueue, hashVars, domVars>>

\* BrowserMouseInput.onCursorPos; xDelta and yDelta are the differences to the
\* last cursor position
OnCursorPos(xDelta, yDelta) ==
    /\ nextId <= MaxEvents
    /\ IF xDelta # 0 \/ yDelta # 0
       THEN /\ mouseMotionEvents' = Append(mouseMotionEvents,
                 MouseMotionEvent(nextId, xDelta, yDelta, 0, MouseInputTime(clock)))
            /\ nextId' = nextId + 1
       ELSE UNCHANGED <<mouseMotionEvents, nextId>>
    /\ Quiet
    /\ UNCHANGED <<clock, keyInputEvents, mouseButtonEvents, tableVars, timingVars,
                   inputQueue, hashVars, domVars>>

\* BrowserMouseInput.onWheelScroll
OnWheelScroll(deltaY) ==
    /\ nextId <= MaxEvents
    /\ mouseMotionEvents' = Append(mouseMotionEvents,
           MouseMotionEvent(nextId, 0, 0, deltaY, MouseInputTime(clock)))
    /\ nextId' = nextId + 1
    /\ Quiet
    /\ UNCHANGED <<clock, keyInputEvents, mouseButtonEvents, tableVars, timingVars,
                   inputQueue, hashVars, domVars>>

(***************************************************************************)
(* InputManager.onKeyEvent called from outside update(): a key source that *)
(* hands over each event as it observes it, stamped with the key clock.    *)
(***************************************************************************)
OnKeyEvent(keyCode, pressed, repeating, consumed) ==
    /\ nextId <= MaxEvents
    /\ inputQueue' = onEvent(inputQueue,
           KeyInputEvent(nextId, keyCode, pressed, repeating, KeyInputTime(clock), consumed))
    /\ nextId' = nextId + 1
    /\ log' = <<>>
    /\ hist' = [QuietHist EXCEPT
                            !.suppressed = IF consumed THEN @ \cup {nextId} ELSE @]
    /\ UNCHANGED <<clock, sourceVars, tableVars, timingVars, hashVars, domVars>>

(***************************************************************************)
(* initialize() of the raw sources and the DOM events dispatched to the    *)
(* listeners it registered.  st = [buf, nid] is a source's buffer and the  *)
(* identity of the next event object.                                      *)
(***************************************************************************)
\* EventTarget.addEventListener: a listener already registered for the type
\* is not registered again.
addEventListener(listeners, handler) ==
    IF handler \in Range(listeners) THEN listeners ELSE Append(listeners, handler)

\* BrowserKeyInput.initialize: a new arrow function on every call
InitializeKeyInput ==
    /\ Len(keypressListeners) < MaxInitialize
    /\ keypressListeners' = addEventListener(keypressListeners, Len(keypressListeners) + 1)
    /\ Quiet
    /\ UNCHANGED <<clock, sourceVars, tableVars, timingVars, inputQueue, nextId,
                   hashVars, canvasListeners>>

Resizes(listeners) == Cardinality({i \in DOMAIN listeners : listeners[i].type = "resize"})

\* BrowserMouseInput.initialize: the four handler properties of the source
\* and a new arrow function for 'resize' on every call
InitializeMouseInput ==
    /\ Resizes(canvasListeners) < MaxInitialize
    /\ canvasListeners' =
          addEventListener(
            addEventListener(
              addEventListener(
                addEventListener(
                  addEventListener(canvasListeners, MouseHandlers[1]),
                  MouseHandlers[2]),
                MouseHandlers[3]),
              MouseHandlers[4]),
            Handler("resize", Resizes(canvasListeners) + 1))
    /\ Quiet
    /\ UNCHANGED <<clock, sourceVars, tableVars, timingVars, inputQueue, nextId,
                   hashVars, keypressListeners>>

\* One key press in the browser: the document calls every 'keypress' listener.
RECURSIVE dispatchKeypress(_, _, _, _)
dispatchKeypress(st, n, keyCode, repeat) ==
    IF n = 0 THEN st
    ELSE dispatchKeypress(onKeypress(st, keyCode, repeat), n - 1, keyCode, repeat)

\* One button change in the browser: the canvas calls every listener of the type.
RECURSIVE dispatchMouseButton(_, _, _, _)
dispatchMouseButton(st, n, button, pressed) ==
    IF n = 0 THEN st
    ELSE dispatchMouseButton(onMouseButton(st, button, pressed), n - 1, button, pressed)

ListenersOf(listeners, type) ==
    Cardinality({i \in DOMAIN listeners : listeners[i].type = type})

\* What an occurrence leaves for observation: its source, the number of
\* initialize() calls before it and the number of events it buffered.
Occurrence(source, inits, buffered) ==
    <<[source |-> source, inits |-> inits, buffered |-> buffered]>>

Keypress(keyCode, repeat) ==
    LET st == dispatchKeypress([nid |-> nextId, buf |-> keyInputEvents],
                               Len(keypressListeners), keyCode, repeat)
    IN  /\ st.nid <= MaxEvents + 1
        /\ keyInputEvents' = st.buf
        /\ nextId' = st.nid
        /\ log' = <<>>
        /\ hist' = [QuietHist EXCEPT
                       !.occurrence =
                           Occurrence("key", Len(keypressListeners), st.nid - nextId),
                       !.physical = IF keyCode \in DOMAIN @
                                    THEN [@ EXCEPT ![keyCode] = "down"] ELSE @]
        /\ UNCHANGED <<clock, mouseMotionEvents, mouseButtonEvents, tableVars,
                       timingVars, inputQueue, hashVars, domVars>>

\* The document's listeners for the release of a key: initialize() registers
\* a listener for 'keypress' and for no other event type.
keyupListeners == <<>>

\* One key release in the browser, of a watched key that is down: the
\* document calls its 'keyup' listeners, of which the key source has none.
Keyup(keyCode) ==
    /\ keyCode \in DOMAIN hist.physical
    /\ hist.physical[keyCode] = "down"
    /\ keyInputEvents' = keyInputEvents \o
                             [i \in DOMAIN keyupListeners |-> keyupListeners[i]]
    /\ log' = <<>>
    /\ hist' = [QuietHist EXCEPT !.physical[keyCode] = "up"]
    /\ UNCHANGED <<clock, mouseMotionEvents, mouseButtonEvents, tableVars,
                   timingVars, inputQueue, nextId, hashVars, domVars>>

MouseButton(button, pressed) ==
    LET type == IF pressed THEN "mousedown" ELSE "mouseup"
        st == dispatchMouseButton([nid |-> nextId, buf |-> mouseButtonEvents],
                                  ListenersOf(canvasListeners, type), button, pressed)
    IN  /\ st.nid <= MaxEvents + 1
        /\ mouseButtonEvents' = st.buf
        /\ nextId' = st.nid
        /\ log' = <<>>
        /\ hist' = [QuietHist EXCEPT !.occurrence =
                       Occurrence("mouse", Resizes(canvasListeners), st.nid - nextId)]
        /\ UNCHANGED <<clock, keyInputEvents, mouseMotionEvents, tableVars,
                       timingVars, inputQueue, hashVars, domVars>>

(***************************************************************************)
(* InputManager.update                                                     *)
(***************************************************************************)
Update(tpf) ==
    LET currentTime == KeyInputTime(clock)
        ctx == [tpf |-> tpf,
                safe |-> tpf < SAFE_MODE_TPF,
                fd |-> TSub(currentTime, lastUpdateTime)]
        s0 == [log |-> <<>>,
               hist |-> [QuietHist EXCEPT !.physical =
                           [k \in DOMAIN @ |-> IF @[k] = "up" THEN "flushed" ELSE @[k]]],
               q |-> BrowserMouseInputUpdate(BrowserKeyInputUpdate(inputQueue)),
               nid |-> nextId,
               pb |-> pressedButtons]
        after == invokeUpdateActions(processQueue(s0, ctx), ctx)
    IN  /\ \A h \in DOMAIN hist.holds : hist.holds[h].ticks < MaxTicks
        /\ \A i \in 1..MaxEvents : hist.resolved[i] < MaxTicks
        /\ frameTPF' = tpf
        /\ safeMode' = ctx.safe
        /\ frameDelta' = ctx.fd
        /\ eventsPermitted' = FALSE
        /\ keyInputEvents' = <<>>
        /\ mouseMotionEvents' = <<>>
        /\ mouseButtonEvents' = <<>>
        /\ \E s2 \in {after} :
              /\ inputQueue' = s2.q
              /\ pressedButtons' = s2.pb
              /\ nextId' = s2.nid
              /\ log' = s2.log
              /\ hist' = s2.hist
              /\ lastLastUpdateTime' =
                    IF s2.hist.thrown THEN lastLastUpdateTime ELSE lastUpdateTime
              /\ lastUpdateTime' = IF s2.hist.thrown THEN lastUpdateTime ELSE currentTime
        /\ UNCHANGED <<clock, tableVars, hashVars, domVars>>

(***************************************************************************)
(* Inputs of the model.                                                    *)
(***************************************************************************)
Names == {"A", "B"}

ActionCallbacks == {"f", "g"}

\* tick lengths, in thousandths of a second: 0.010 (safe mode) and 0.016
TickLengths == {10, 16}

Press == [pressed |-> TRUE, repeating |-> FALSE, consumed |-> FALSE]

Release == [pressed |-> FALSE, repeating |-> FALSE, consumed |-> FALSE]

Repeat == [pressed |-> TRUE, repeating |-> TRUE, consumed |-> FALSE]

\* a press whose consumed flag was set before the engine reaches it
Suppressed == [pressed |-> TRUE, repeating |-> FALSE, consumed |-> TRUE]

(***************************************************************************)
(* Held-key timing: one mapping bound to the space key, presses and        *)
(* releases handed over as observed, ticks of both lengths.                *)
(***************************************************************************)
TimingNext ==
    \/ Tick
    \/ AddMapping("A", <<KeyTrigger(KEY_SPACE)>>)
    \/ AddListener("f", <<"A">>)
    \/ AddAnalogListener("h", <<"A">>)
    \/ \E kind \in {Release, Press} :
           OnKeyEvent(KEY_SPACE, kind.pressed, kind.repeating, kind.consumed)
    \/ \E tpf \in TickLengths : Update(tpf)

Spec == Init /\ [][TimingNext]_vars

(***************************************************************************)
(* The drain: events of every kind, listeners that call back into the      *)
(* engine, no passing of time.                                             *)
(***************************************************************************)
DrainNext ==
    \/ \E n \in Names : AddMapping(n, <<KeyTrigger(KEY_SPACE)>>)
    \/ \E n \in Names, cb \in ActionCallbacks : AddListener(cb, <<n>>)
    \/ \E kind \in {Release, Press, Suppressed, Repeat} :
           OnKeyEvent(KEY_SPACE, kind.pressed, kind.repeating, kind.consumed)
    \/ Update(16)

SpecDrain == Init /\ [][DrainNext]_vars

(***************************************************************************)
(* The browser sources: DOM key and mouse button events buffered by        *)
(* BrowserKeyInput and BrowserMouseInput and handed over inside update().  *)
(***************************************************************************)
BrowserNext ==
    \/ Tick
    \/ AddMapping("A", <<KeyTrigger(KEY_SPACE), MouseButtonTrigger(0)>>)
    \/ AddListener("f", <<"A">>)
    \/ AddAnalogListener("h", <<"A">>)
    \/ \E repeat \in BOOLEAN : OnKeypress(KEY_SPACE, repeat)
    \/ \E pressed \in BOOLEAN : OnMouseButton(0, pressed)
    \/ Update(16)

SpecBrowser == Init /\ [][BrowserNext]_vars

(***************************************************************************)
(* Mouse motion: half-axis triggers, cursor and wheel deltas on both sides *)
(* of the dead zone (51/1024 < 0.05 < 52/1024, 4/100 < 0.05 = 5/100).      *)
(***************************************************************************)
AxisTriggers ==
    {MouseAxisTrigger(AXIS_X, FALSE), MouseAxisTrigger(AXIS_WHEEL, FALSE),
     MouseAxisTrigger(AXIS_X, TRUE), MouseAxisTrigger(AXIS_Y, TRUE)}

CursorDeltas == {-52, 0, 51}

WheelDeltas == {4, 5}

MotionNext ==
    \/ \E t \in AxisTriggers : AddMapping("A", <<t>>)
    \/ AddListener("f", <<"A">>)
    \/ AddAnalogListener("h", <<"A">>)
    \/ \E dx \in CursorDeltas, dy \in CursorDeltas : OnCursorPos(dx, dy)
    \/ \E dw \in WheelDeltas : OnWheelScroll(dw)
    \/ \E tpf \in TickLengths : Update(tpf)

SpecMotion == Init /\ [][MotionNext]_vars

(***************************************************************************)
(* Trigger hashes: two triggers are constructed with arguments their       *)
(* constructors accept, then each is asked for its hash code.              *)
(***************************************************************************)
KeyCodes == {0, 1, 32, 255, 256}

Buttons == {0, 1, 255, 256, 257}

Axes == {AXIS_X, AXIS_Y, AXIS_WHEEL}

TriggerInputs ==
    {KeyTrigger(k) : k \in KeyCodes}
    \cup {MouseButtonTrigger(b) : b \in Buttons}
    \cup {MouseAxisTrigger(a, n) : a \in Axes, n \in BOOLEAN}

InitHash ==
    /\ EngineInit
    /\ hist = HistInit
    /\ construction = NoConstruction
    /\ SourcesInitialized
    /\ trigA \in {t \in TriggerInputs : Constructible(t)}
    /\ trigB \in {t \in TriggerInputs : Constructible(t)}

TriggerHashCodeA ==
    /\ hashA = <<>>
    /\ hashA' = <<triggerHashCode(trigA)>>
    /\ UNCHANGED <<clock, sourceVars, tableVars, timingVars, inputQueue, nextId,
                   log, hist, trigA, trigB, hashB, construction, domVars>>

TriggerHashCodeB ==
    /\ hashB = <<>>
    /\ hashB' = <<triggerHashCode(trigB)>>
    /\ UNCHANGED <<clock, sourceVars, tableVars, timingVars, inputQueue, nextId,
                   log, hist, trigA, trigB, hashA, construction, domVars>>

HashNext ==
    \/ TriggerHashCodeA
    \/ TriggerHashCodeB

SpecHash == InitHash /\ [][HashNext]_vars

(***************************************************************************)
(* Trigger construction: const a = new T(arguments), valid and invalid.    *)
(***************************************************************************)
KeyCodeArgs == {-1, 0, 32, 255, 256}

ButtonArgs == {-2, -1, 0, 1, 255, 256}

AxisArgs == {-1, 0, 1, 2, 3}

ConstructorInputs ==
    {KeyTrigger(k) : k \in KeyCodeArgs}
    \cup {MouseButtonTrigger(b) : b \in ButtonArgs}
    \cup {MouseAxisTrigger(a, n) : a \in AxisArgs, n \in BOOLEAN}

Construct(t) ==
    /\ construction' = New(t)
    /\ trigA' = IF New(t).threw THEN trigA ELSE New(t).object[1]
    /\ UNCHANGED <<clock, sourceVars, tableVars, timingVars, inputQueue, nextId,
                   log, hist, trigB, hashA, hashB, domVars>>

ConstructNext == \E t \in ConstructorInputs : Construct(t)

SpecConstruct == Init /\ [][ConstructNext]_vars

(***************************************************************************)
(* initialize() called any number of times on each raw source, key presses *)
(* and button changes dispatched by the browser to the listeners it left.  *)
(***************************************************************************)
InitSources ==
    /\ EngineInit
    /\ hist = HistInit
    /\ trigA = NoTrigger
    /\ trigB = NoTrigger
    /\ construction = NoConstruction
    /\ keypressListeners = <<>>
    /\ canvasListeners = <<>>

InitializeNext ==
    \/ Tick
    \/ InitializeKeyInput
    \/ InitializeMouseInput
    \/ Keypress(KEY_SPACE, FALSE)
    \/ \E pressed \in BOOLEAN : MouseButton(0, pressed)
    \/ Update(16)

SpecInitialize == InitSources /\ [][InitializeNext]_vars

(***************************************************************************)
(* Fan-out: one key bound to one or two mappings, action and analog        *)
(* listeners on either, presses and releases stamped by a running clock.   *)
(***************************************************************************)
FanOutNext ==
    \/ Tick
    \/ \E n \in Names : AddMapping(n, <<KeyTrigger(KEY_SPACE)>>)
    \/ \E n \in Names : AddListener("f", <<n>>)
    \/ AddAnalogListener("h", <<"A">>)
    \/ \E kind \in {Release, Press} :
           OnKeyEvent(KEY_SPACE, kind.pressed, kind.repeating, kind.consumed)
    \/ Update(16)

SpecFanOut == Init /\ [][FanOutNext]_vars

(***************************************************************************)
(* Events the engine ignores: repeats of a bound key, presses and releases *)
(* of a key nothing is bound to.                                           *)
(***************************************************************************)
\* a key code that no mapping is bound to
UnboundKeys == {0}

IgnoredNext ==
    \/ Tick
    \/ AddMapping("A", <<KeyTrigger(KEY_SPACE)>>)
    \/ AddListener("f", <<"A">>)
    \/ AddAnalogListener("h", <<"A">>)
    \/ \E kind \in {Release, Press, Repeat} :
           OnKeyEvent(KEY_SPACE, kind.pressed, kind.repeating, kind.consumed)
    \/ \E keyCode \in UnboundKeys, kind \in {Release, Press} :
           OnKeyEvent(keyCode, kind.pressed, kind.repeating, kind.consumed)
    \/ Update(16)

SpecIgnored == Init /\ [][IgnoredNext]_vars

(***************************************************************************)
(* Physical keys: the browser reports the space key going down (with       *)
(* auto-repeat) and coming up; hist.physical follows the key: "idle",      *)
(* "down", "up" (released, no update() since), "flushed" (released and an  *)
(* update() has run since).                                                *)
(***************************************************************************)
InitPhysical ==
    /\ EngineInit
    /\ hist = [HistInit EXCEPT !.physical = [k \in {KEY_SPACE} |-> "idle"]]
    /\ trigA = NoTrigger
    /\ trigB = NoTrigger
    /\ construction = NoConstruction
    /\ SourcesInitialized

PhysicalNext ==
    \/ Tick
    \/ AddMapping("A", <<KeyTrigger(KEY_SPACE)>>)
    \/ AddListener("f", <<"A">>)
    \/ AddAnalogListener("h", <<"A">>)
    \/ \E repeat \in BOOLEAN : Keypress(KEY_SPACE, repeat)
    \/ Keyup(KEY_SPACE)
    \/ Update(16)

SpecPhysical == InitPhysical /\ [][PhysicalNext]_vars

(***************************************************************************)
(* Tick boundaries: update() calls at advancing clock readings, with       *)
(* listeners that return, that call back into the engine and that throw.   *)
(***************************************************************************)
BoundaryNext ==
    \/ Tick
    \/ AddMapping("A", <<KeyTrigger(KEY_SPACE)>>)
    \/ \E cb \in {"f"} \cup Reentrant \cup Throwing : AddListener(cb, <<"A">>)
    \/ \E kind \in {Release, Press} :
           OnKeyEvent(KEY_SPACE, kind.pressed, kind.repeating, kind.consumed)
    \/ Update(16)

SpecBoundary == Init /\ [][BoundaryNext]_vars

(***************************************************************************)
(* Registration: mappings bound to one or two triggers per call, repeated  *)
(* within a call and across calls, listeners added before and after the    *)
(* bindings, key events dispatched through the tables so built.            *)
(***************************************************************************)
RegTriggers ==
    {MouseButtonTrigger(0), MouseButtonTrigger(256), KeyTrigger(KEY_SPACE)}

TriggerLists ==
    {<<t>> : t \in RegTriggers} \cup {<<t, u>> : t \in RegTriggers, u \in RegTriggers}

NameLists == {<<"A">>, <<"B">>, <<"A", "A">>, <<"A", "B">>}

InitRegister ==
    /\ EngineInit
    /\ hist = [HistInit EXCEPT !.watch = TRUE]
    /\ trigA = NoTrigger
    /\ trigB = NoTrigger
    /\ construction = NoConstruction
    /\ SourcesInitialized

RegisterNext ==
    \/ \E n \in Names, ts \in TriggerLists : AddMapping(n, ts)
    \/ \E ns \in NameLists : AddListener("f", ns)
    \/ \E ns \in NameLists : AddAnalogListener("h", ns)
    \/ OnKeyEvent(KEY_SPACE, Press.pressed, Press.repeating, Press.consumed)
    \/ Update(16)

SpecRegister == InitRegister /\ [][RegisterNext]_vars

(***************************************************************************)
(* Listener failure: action listeners that return and action listeners     *)
(* that throw on the mappings of one key.                                  *)
(***************************************************************************)
ThrowNext ==
    \/ \E n \in Names : AddMapping(n, <<KeyTrigger(KEY_SPACE)>>)
    \/ \E n \in Names, cb \in {"f"} \cup Throwing : AddListener(cb, <<n>>)
    \/ \E kind \in {Release, Press} :
           OnKeyEvent(KEY_SPACE, kind.pressed, kind.repeating, kind.consumed)
    \/ Update(16)

SpecThrow == Init /\ [][ThrowNext]_vars

(***************************************************************************)
(* Properties of the drain.                                                *)
(***************************************************************************)
\* ids of the events waiting in the engine's queue or in a source's buffer
QueuedIds ==
    {inputQueue[i].id : i \in DOMAIN inputQueue}
    \cup {keyInputEvents[i].id : i \in DOMAIN keyInputEvents}
    \cup {mouseMotionEvents[i].id : i \in DOMAIN mouseMotionEvents}
    \cup {mouseButtonEvents[i].id : i \in DOMAIN mouseButtonEvents}

\* the event was in the queue when a drain started
Drained(id) == id < nextId /\ id \notin QueuedIds /\ id \notin hist.deferred

C2_PushedDuringDrainKept ==
    \A id \in hist.deferred : hist.resolved[id] = 1 \/ id \in QueuedIds

\* C3: listeners are called in the order in which the raw sources observed
\* the events: a call made for an event is never followed, in the same
\* update(), by a call made for an event observed earlier.
C3_ArrivalOrder ==
    \A i, j \in DOMAIN log :
        (i < j /\ log[i].ev # 0 /\ log[j].ev # 0) => log[i].ev <= log[j].ev

\* C4: of two action callbacks made for the same event through the same
\* mapping, the one made first belongs to the listener registered later
\* (the higher index in the mapping's listener list).
C4_ReverseRegistrationOrder ==
    \A i, j \in DOMAIN log :
        (/\ i < j
         /\ log[i].kind = "action" /\ log[j].kind = "action"
         /\ log[i].ev = log[j].ev /\ log[i].hash = log[j].hash
         /\ log[i].name = log[j].name)
        => log[i].idx > log[j].idx

\* two action listeners of one mapping were called for one event, and the
\* callbacks registered first and second are different functions
C4_Witness ==
    \E i, j \in DOMAIN log :
        /\ i < j
        /\ log[i].kind = "action" /\ log[j].kind = "action"
        /\ log[i].ev = log[j].ev /\ log[i].name = log[j].name
        /\ log[i].idx = 2 /\ log[j].idx = 1
        /\ log[i].cb # log[j].cb

(***************************************************************************)
(* Properties of the held-button timing.                                   *)
(***************************************************************************)
IsDigital(e) == e.kind \in {"button", "key"} /\ ~e.repeating

EventHash(e) == IF e.kind = "key" THEN keyHash(e.code) ELSE mouseButtonHash(e.code)

\* positions in the last drain of a press directly followed by the release of
\* the same bound key, the release not stamped before the press
Taps ==
    {i \in DOMAIN hist.order :
        /\ i < Len(hist.order)
        /\ IsDigital(hist.order[i]) /\ hist.order[i].pressed
        /\ IsDigital(hist.order[i + 1]) /\ ~hist.order[i + 1].pressed
        /\ EventHash(hist.order[i]) = EventHash(hist.order[i + 1])
        /\ EventHash(hist.order[i]) \in DOMAIN bindings
        /\ ~TLess(hist.order[i + 1].time, hist.order[i].time)}

heldTime(i) == TSub(hist.order[i + 1].time, hist.order[i].time)

\* the listeners bound to a hash, each as mapping name and index
BoundListeners(hash, kind) ==
    {t \in UNION {{[name |-> bindings[hash][k], idx |-> j] :
                     j \in DOMAIN mappings[bindings[hash][k]].listeners} :
                  k \in DOMAIN bindings[hash]} :
        mappings[t.name].listeners[t.idx].kind = kind}

\* the calls of the last update() to one listener for the events evs
Calls(t, evs) ==
    SelectSeq(log, LAMBDA e : e.name = t.name /\ e.idx = t.idx /\ e.ev \in evs)

Flags(calls) == [k \in DOMAIN calls |-> calls[k].pressed]

TapEvents(i) == {hist.order[i].id, hist.order[i + 1].id}

\* every action listener of the tapped key was called twice: true, then false
TapActions(i) ==
    \A t \in BoundListeners(EventHash(hist.order[i]), "action") :
        Flags(Calls(t, TapEvents(i))) = <<TRUE, FALSE>>

\* clamp(d / frameDelta, 0, 1), frameDelta being the length of the tick that
\* ended with this update(); 1 when that length is 0
NormalizedHeld(d) ==
    IF frameDelta = TZero THEN ROne ELSE clamp(TDiv(d, frameDelta), RZero, ROne)

\* C5: when a release ends a hold, the held durations the analog callbacks
\* of that hold were computed from (every settling interval and the release
\* interval) add up to no more than release time minus press time.
C5_NoTimeReportedTwice ==
    \A i \in DOMAIN hist.done :
        ~TLess(hist.done[i].release, hist.done[i].press)
        => ~TLess(TSub(hist.done[i].release, hist.done[i].press), hist.done[i].sum)

ActionOncePerEvent ==
    /\ \A k \in DOMAIN log :
          log[k].kind = "action" => log[k].phase = "resolve" /\ log[k].ev # 0
    /\ \A i \in DOMAIN hist.order :
          LET e == hist.order[i]
          IN  (IsDigital(e) /\ EventHash(e) \in DOMAIN bindings)
              => \A t \in BoundListeners(EventHash(e), "action") :
                    Flags(Calls(t, {e.id})) = <<e.pressed>>

\* the settling calls of the last update() to one analog listener for a hash
SettleCalls(t, hash) ==
    SelectSeq(log, LAMBDA e : e.name = t.name /\ e.idx = t.idx
                              /\ e.phase = "settle" /\ e.hash = hash)

Components(e) ==
    {c \in {[value |-> Real(Abs(e.dx), 0, 1024), hash |-> mouseAxisHash(AXIS_X, e.dx < 0),
             delta |-> e.dx],
            [value |-> Real(Abs(e.dy), 0, 1024), hash |-> mouseAxisHash(AXIS_Y, e.dy < 0),
             delta |-> e.dy],
            [value |-> Real(Abs(e.dw), 0, 100), hash |-> mouseAxisHash(AXIS_WHEEL, e.dw < 0),
             delta |-> e.dw]} : c.delta # 0}

\* components of the motion events of the last drain whose half-axis is bound
BoundComponents ==
    UNION {{[value |-> c.value, id |-> hist.order[i].id, hash |-> c.hash] :
              c \in {c \in Components(hist.order[i]) : c.hash \in DOMAIN bindings}} :
           i \in {i \in DOMAIN hist.order : hist.order[i].kind = "motion"}}

BelowDeadZone(c) == RLess(c.value, Real(5, 0, 100))

\* the calls of the last update() to one listener for one component
AxisCalls(t, c) ==
    SelectSeq(log, LAMBDA e : e.name = t.name /\ e.idx = t.idx
                              /\ e.ev = c.id /\ e.hash = c.hash)

C10_HashInjective ==
    (hashA # <<>> /\ hashB # <<>> /\ trigA # trigB) => hashA # hashB

\* C11: the hash is total over the triggers that can be constructed:
\* triggerHashCode() never returns undefined.
C11_HashTotal ==
    /\ hashA # <<>> => hashA # <<Undefined>>
    /\ hashB # <<>> => hashB # <<Undefined>>

(***************************************************************************)
(* Registration tables.                                                    *)
(***************************************************************************)
Count(seq, x) == Cardinality({i \in DOMAIN seq : seq[i] = x})

\* C12: addMapping is idempotent per (mapping, trigger hash): binding a hash a
\* mapping is already bound to, within one call or in a later one, changes
\* nothing, so a mapping's trigger list never holds the same hash twice and a
\* binding-table entry never holds the same mapping twice.
C12_AddMappingIdempotent ==
    /\ \A n \in DOMAIN mappings : \A h \in Range(mappings[n].triggers) :
          Count(mappings[n].triggers, h) = 1
    /\ \A h \in DOMAIN bindings : \A n \in Range(bindings[h]) :
          Count(bindings[h], n) = 1
    /\ \A r \in hist.rebound :
          /\ Count(mappings[r.name].triggers, r.hash) = 1
          /\ Count(bindings[r.hash], r.name) = 1

\* a call that bound two hashes to a mapping, one of them bound before
C12_Witness ==
    \E r \in hist.rebound :
        /\ Len(mappings[r.name].triggers) = 2
        /\ Count(mappings[r.name].triggers, r.hash) = 1
        /\ Len(bindings[r.hash]) = 1

\* C13: in every reachable state the binding table and the mappings' trigger
\* lists agree in both directions: mapping m is in bindings[h] if and only if
\* h is in m.triggers.
C13_BindingsConsistent ==
    /\ \A h \in DOMAIN bindings : \A n \in Range(bindings[h]) :
          n \in DOMAIN mappings /\ h \in Range(mappings[n].triggers)
    /\ \A n \in DOMAIN mappings : \A h \in Range(mappings[n].triggers) :
          h \in DOMAIN bindings /\ n \in Range(bindings[h])

\* two mappings under one hash, a listener registered, an event dispatched
C13_Witness ==
    /\ \E h \in DOMAIN bindings : Len(bindings[h]) = 2
    /\ \E n \in DOMAIN mappings :
          mappings[n].triggers # <<>> /\ mappings[n].listeners # <<>>
    /\ log # <<>>

\* the hashes bound to a mapping, read from its trigger list and from the table
BoundHashes(n) == Range(mappings[n].triggers)

TableHashes(n) == {h \in DOMAIN bindings : n \in Range(bindings[h])}

\* the hashes of the triggers handed to addMapping for a mapping so far
AddedHashes(n) == {triggerHashCode(a.trigger) : a \in {a \in hist.added : a.name = n}}

\* C14: the set of hashes bound to a mapping is exactly the set of the hashes
\* of the triggers addMapping received for it, whatever the order of the
\* triggers in a call and whether they came in one call or in several.
C14_BoundHashesRoundTrip ==
    /\ \A n \in DOMAIN mappings :
          BoundHashes(n) = AddedHashes(n) /\ TableHashes(n) = AddedHashes(n)
    /\ \A a \in hist.added : a.name \in DOMAIN mappings

\* two triggers of different hashes bound to one mapping, the larger hash first
C14_Witness ==
    \E n \in DOMAIN mappings :
        /\ Len(mappings[n].triggers) = 2
        /\ mappings[n].triggers[1] > mappings[n].triggers[2]
        /\ Cardinality(AddedHashes(n)) = 2
        /\ hist.rebound = {}

\* C15: registering the same callback a second time for the same mapping name
\* changes nothing: the mapping's listener list holds the callback once and
\* the callback is invoked once per dispatched event.
C15_SameCallbackOnce ==
    /\ \A n \in DOMAIN mappings : \A l \in Range(mappings[n].listeners) :
          Count(mappings[n].listeners, l) = 1
    /\ \A i \in DOMAIN log : \A j \in DOMAIN log :
          (/\ log[i].cb = log[j].cb /\ log[i].kind = log[j].kind
           /\ log[i].name = log[j].name /\ log[i].ev = log[j].ev
           /\ log[i].phase = log[j].phase)
          => i = j

IsPrefix(a, b) == Len(a) <= Len(b) /\ SubSeq(b, 1, Len(a)) = a

\* a step keeps every mapping, with the listeners and triggers it has, and
\* every binding-table entry, with the mappings it has
RegistrationsKept ==
    /\ \A n \in DOMAIN mappings :
          /\ n \in DOMAIN mappings'
          /\ IsPrefix(mappings[n].listeners, mappings'[n].listeners)
          /\ IsPrefix(mappings[n].triggers, mappings'[n].triggers)
    /\ \A h \in DOMAIN bindings :
          h \in DOMAIN bindings' /\ IsPrefix(bindings[h], bindings'[h])

\* the action listeners registered on a name before any trigger was bound to
\* it are called once for every event of the triggers bound later
EarlyListenersDispatched ==
    \A t \in hist.early : \A i \in DOMAIN hist.order :
        LET e == hist.order[i]
        IN  (/\ IsDigital(e)
             /\ EventHash(e) \in Range(mappings[t.name].triggers)
             /\ mappings[t.name].listeners[t.idx].kind = "action")
            => Flags(Calls(t, {e.id})) = <<e.pressed>>

\* C16: one InputMapping per name, created by the first call that names it,
\* whether addMapping or addListener / addAnalogListener, and used by every
\* later call, so that listeners registered before the triggers are bound
\* are dispatched to once the binding exists; no step removes a mapping, a
\* binding or a listener.
C16_OneMappingPerName ==
    /\ [](\A n \in DOMAIN mappings : mappings[n].name = n)
    /\ []EarlyListenersDispatched
    /\ [][RegistrationsKept]_vars

\* a listener registered on a name without triggers, called in an update()
\* after the name was bound
C16_Witness ==
    \E t \in hist.early : \E k \in DOMAIN log :
        /\ mappings[t.name].triggers # <<>>
        /\ log[k].name = t.name /\ log[k].idx = t.idx
        /\ log[k].kind = "action"
        /\ Len(mappings[t.name].listeners) = 2

(***************************************************************************)
(* Listener failure.                                                       *)
(***************************************************************************)
\* C17: a listener that throws during update() ends that update(): the
\* exception reaches the caller of update(), and no listener later in the
\* dispatch order, for the same event or for a later event of the snapshot,
\* is called in that update().
C17_ThrowEndsUpdate ==
    /\ hist.thrown <=> \E k \in DOMAIN log : log[k].cb \in Throwing
    /\ \A k \in DOMAIN log : log[k].cb \in Throwing => k = Len(log)
    /\ hist.thrown =>
          /\ hist.order # <<>>
          /\ log[Len(log)].ev = hist.order[Len(hist.order)].id

\* a throwing listener called first, a returning listener of the same event
\* and a later event of the snapshot left alone
C17_Witness ==
    /\ hist.thrown
    /\ Len(log) = 1
    /\ \E n \in DOMAIN mappings :
          /\ Len(mappings[n].listeners) = 2
          /\ mappings[n].listeners[1].cb = "f"
          /\ mappings[n].listeners[2].cb \in Throwing
          /\ log[1].name = n /\ log[1].idx = 2
    /\ Len(inputQueue) = 2
    /\ log[1].ev = inputQueue[1].id
    /\ ~inputQueue[2].consumed

(***************************************************************************)
(* Trigger construction.                                                   *)
(***************************************************************************)
\* C18: an invalid trigger construction throws and yields no trigger object:
\* a mouse axis trigger with an axis index outside 0..2, a mouse button
\* trigger with a negative button index; every axis index in 0..2 and every
\* button index >= 0 constructs the trigger asked for.
C18_InvalidConstructionThrows ==
    LET t == construction.trigger
    IN  /\ t.type = "axis" => (construction.threw <=> t.value \notin 0..2)
        /\ t.type = "button" => (construction.threw <=> t.value < 0)
        /\ construction.threw => construction.object = <<>>
        /\ (~construction.threw /\ t # NoTrigger)
              => construction.object = <<t>> /\ trigA = t

\* an axis index above the range refused after a trigger had been constructed
C18_Witness ==
    /\ construction.trigger = MouseAxisTrigger(3, FALSE)
    /\ construction.threw
    /\ trigA = MouseButtonTrigger(256)

(***************************************************************************)
(* The raw sources.                                                        *)
(***************************************************************************)
\* C19: initialize() of a raw source is idempotent: however often it has been
\* called, once or more, one key press and one button change each buffer
\* exactly one raw event.
C19_InitializeIdempotent ==
    \A i \in DOMAIN hist.occurrence :
        hist.occurrence[i].inits >= 1 => hist.occurrence[i].buffered = 1

\* C20: the time stamps the engine compares are in one time base: for the
\* same reading of the clock, the key source's getInputTime(), which also
\* stamps the tick boundaries, and the mouse source's getInputTime() return
\* the same value.
C20_OneTimeBase == KeyInputTime(clock) = MouseInputTime(clock)

(***************************************************************************)
(* Resolution of digital events.                                           *)
(***************************************************************************)
\* the calls of the last update() made for one event while it was resolved
CallsFor(id) == SelectSeq(log, LAMBDA c : c.ev = id)

\* the positions in the last drain of the bound digital events of one kind
Resolved(pressed) ==
    {i \in DOMAIN hist.order :
        /\ IsDigital(hist.order[i]) /\ hist.order[i].pressed = pressed
        /\ EventHash(hist.order[i]) \in DOMAIN bindings}

\* no later digital event of the same hash was resolved in the last drain
LastOfHash(i) ==
    \A j \in DOMAIN hist.order :
        (j > i /\ IsDigital(hist.order[j]))
        => EventHash(hist.order[j]) # EventHash(hist.order[i])

\* C21: resolving a non-repeat press whose hash is bound to k mappings calls
\* every action listener of each of the k mappings exactly once, with the
\* mapping's name, pressed = true and the tick length of this update(); it
\* calls no analog listener and records the event's time stamp as the press
\* start of the hash.
C21_PressFanOut ==
    \A i \in Resolved(TRUE) :
        LET e == hist.order[i]
            calls == CallsFor(e.id)
        IN  /\ \A t \in BoundListeners(EventHash(e), "action") :
                  LET mine == Calls(t, {e.id})
                  IN  /\ Len(mine) = 1
                      /\ mine[1].kind = "action" /\ mine[1].pressed
                      /\ mine[1].tpf = frameTPF
                      /\ mine[1].cb = mappings[t.name].listeners[t.idx].cb
            /\ Len(calls) = Cardinality(BoundListeners(EventHash(e), "action"))
            /\ \A k \in DOMAIN calls : calls[k].kind = "action"
            /\ LastOfHash(i)
                  => /\ EventHash(e) \in DOMAIN pressedButtons
                     /\ pressedButtons[EventHash(e)] = e.time

\* a press stamped after the clock started, its key bound to two mappings
\* with one action listener each
C21_Witness ==
    \E i \in Resolved(TRUE) :
        LET e == hist.order[i]
        IN  /\ Len(bindings[EventHash(e)]) = 2
            /\ Cardinality(BoundListeners(EventHash(e), "action")) = 2
            /\ Len(CallsFor(e.id)) = 2
            /\ CallsFor(e.id)[1].name # CallsFor(e.id)[2].name
            /\ e.time # TZero
            /\ pressedButtons[EventHash(e)] = e.time

\* the analog calls of the last update() to one listener for one event
AnalogCalls(t, id) == SelectSeq(Calls(t, {id}), LAMBDA c : c.kind = "analog")

\* C22: resolving a release of a bound hash first calls the action listeners
\* with pressed = false, then makes one analog call per analog listener
\* exactly when releaseTime - max(pressStartTime, previousTickBoundary) is
\* positive, and in every case removes the press start of the hash, so that
\* the settling phase calls nobody for the hash until it is pressed again.
C22_ReleaseResolution ==
    /\ \A i \in Resolved(FALSE) :
          LET e == hist.order[i]
              calls == CallsFor(e.id)
          IN  /\ \A t \in BoundListeners(EventHash(e), "action") :
                    Flags(Calls(t, {e.id})) = <<FALSE>>
              /\ \A a \in DOMAIN calls : \A b \in DOMAIN calls :
                    (calls[a].kind = "action" /\ calls[b].kind = "analog") => a < b
              /\ LastOfHash(i) => EventHash(e) \notin DOMAIN pressedButtons
    /\ \A i \in DOMAIN hist.done :
          LET d == hist.done[i]
              positive == TLess(TMax(d.press, d.boundary), d.release)
          IN  \A t \in BoundListeners(d.hash, "analog") :
                  Len(AnalogCalls(t, d.ev)) = IF positive THEN 1 ELSE 0
    /\ \A k \in DOMAIN log :
          log[k].phase = "settle" => log[k].hash \in DOMAIN pressedButtons

TimedCalls == SelectSeq(log, LAMBDA c : c.kind = "analog" /\ TLess(TZero, c.td))

\* C24: the value computed from a held duration is 1 when the tick is in safe
\* mode or the clock time between the previous update() and this one is zero,
\* and otherwise the held duration divided by that time, clamped to [0, 1]; it
\* is never a quotient by zero and always within [0, 1].  The listener receives
\* it multiplied by the tick length.
C24_AnalogValueNormalized ==
    \A k \in DOMAIN TimedCalls :
        LET c == TimedCalls[k]
            r == IF safeMode \/ frameDelta = TZero THEN ROne
                 ELSE LET q == [n |-> c.td, d |-> frameDelta[1]]
                      IN  IF RLess(q, RZero) THEN RZero
                          ELSE IF RLess(ROne, q) THEN ROne ELSE q
        IN  /\ c.value.d # 0
            /\ REq(c.value, RTimesTpf(r, frameTPF))
            /\ ~RLess(c.value, RZero)
            /\ ~RLess(Real(frameTPF, 0, 1000), c.value)

\* outside safe mode an update() at the clock reading of the previous one has
\* called an analog listener for a held duration
C24_Witness ==
    /\ ~safeMode
    /\ frameDelta = TZero
    /\ TimedCalls # <<>>

\* C25 as stated: a press and a release of a bound key resolved in the same
\* update() cause no analog callback.
C25_TapEmitsNoAnalog ==
    \A i \in Taps :
        \A t \in BoundListeners(EventHash(hist.order[i]), "analog") :
            Calls(t, TapEvents(i)) = <<>>

\* C25 amended: a press and a release of a bound key resolved in the same
\* update() cause one analog callback per analog listener, made when the
\* release is resolved, if the release is stamped later than the press and
\* the press is not stamped 0; they cause none only if both carry the same
\* time stamp or the press is stamped 0.  The settling phase of that update()
\* calls nobody for the key.
C25_TapEmitsUnlessEmpty ==
    \A i \in Taps :
        \A t \in BoundListeners(EventHash(hist.order[i]), "analog") :
            /\ Len(AnalogCalls(t, hist.order[i + 1].id)) =
                  IF TLess(hist.order[i].time, hist.order[i + 1].time)
                     /\ hist.order[i].time # TZero
                  THEN 1 ELSE 0
            /\ AnalogCalls(t, hist.order[i].id) = <<>>
            /\ LastOfHash(i + 1) => SettleCalls(t, EventHash(hist.order[i])) = <<>>

\* a press and a release of a bound key with an analog listener, both stamped
\* with the same clock reading other than 0, were resolved in one update()
\* and the analog listener was not called
C25_Witness ==
    \E i \in Taps :
        /\ hist.order[i].time # TZero
        /\ heldTime(i) = TZero
        /\ \E t \in BoundListeners(EventHash(hist.order[i]), "analog") :
              Calls(t, TapEvents(i)) = <<>>

(***************************************************************************)
(* Mouse motion at or above the dead zone.                                 *)
(***************************************************************************)
\* the components of the last drain at or above the dead zone
ActiveComponents == {c \in BoundComponents : ~BelowDeadZone(c)}

\* the action calls of the last update() to one listener for one half-axis
AxisActionCalls(t, hash) ==
    SelectSeq(log, LAMBDA e : e.name = t.name /\ e.idx = t.idx
                              /\ e.hash = hash /\ e.kind = "action")

\* C26: of the motion events resolved by one update() with a component at or
\* above the dead zone on the same bound half-axis, only the first makes the
\* action listeners of that half-axis fire (pressed = true); each is called
\* once, not once per event.
C26_AxisActionOncePerWindow ==
    \A c \in ActiveComponents :
        \A t \in BoundListeners(c.hash, "action") :
            Flags(AxisActionCalls(t, c.hash)) = <<TRUE>>

Repeats == {i \in DOMAIN hist.order :
               hist.order[i].kind = "key" /\ hist.order[i].repeating}

\* the press start of a hash, <<>> if it has none
PressStart(pb, hash) == IF hash \in DOMAIN pb THEN <<pb[hash]>> ELSE <<>>

\* an update() whose drain resolved repeats only for a hash leaves the press
\* start of that hash as it was
RepeatsKeepPressStart ==
    \A hash \in {EventHash(hist'.order[i]) : i \in DOMAIN hist'.order} :
        (\A i \in DOMAIN hist'.order :
            EventHash(hist'.order[i]) = hash => hist'.order[i].repeating)
        => PressStart(pressedButtons', hash) = PressStart(pressedButtons, hash)

\* C28: a repeating key event reaches no action and no analog listener and
\* leaves the press start of its key as it was, yet it is resolved once,
\* marked consumed and removed from the queue by the update() that drains it.
C28_RepeatIgnoredButConsumed ==
    /\ [](\A i \in Repeats :
            LET e == hist.order[i]
            IN  /\ CallsFor(e.id) = <<>>
                /\ hist.resolved[e.id] = 1 /\ hist.marked[e.id] = 1
                /\ \A k \in DOMAIN inputQueue : inputQueue[k].id # e.id)
    /\ [][RepeatsKeepPressStart]_vars

\* an update() has resolved a repeat of a bound key that is held and has an
\* action and an analog listener
C28_Witness ==
    \E i \in Repeats :
        LET hash == EventHash(hist.order[i])
        IN  /\ hash \in DOMAIN bindings /\ hash \in DOMAIN pressedButtons
            /\ BoundListeners(hash, "action") # {}
            /\ BoundListeners(hash, "analog") # {}
            /\ hist.marked[hist.order[i].id] = 1

\* C29: an event enters inputQueue only while update() polls the raw sources
\* (eventsPermitted = true).  Every update() that returns leaves the queue
\* empty, so whenever eventsPermitted is false the queue holds no event: one
\* found there was added by a call made outside the polling.
C29_QueueClosedOutsideCollecting == eventsPermitted \/ inputQueue = <<>>

\* the positions in the last drain of the presses and releases of a hash
\* that no mapping is bound to
Unbound ==
    {i \in DOMAIN hist.order :
        IsDigital(hist.order[i]) /\ EventHash(hist.order[i]) \notin DOMAIN bindings}

\* an update() leaves the registrations as they were, and the press start of
\* every unbound hash it resolved an event of
UnboundKeepTables ==
    \A i \in DOMAIN hist'.order :
        LET hash == EventHash(hist'.order[i])
        IN  (IsDigital(hist'.order[i]) /\ hash \notin DOMAIN bindings) =>
                /\ PressStart(pressedButtons', hash) = PressStart(pressedButtons, hash)
                /\ bindings' = bindings /\ mappings' = mappings

\* C30: resolving a press or release of a hash that no mapping is bound to
\* calls no listener and raises nothing, leaves bindings, mappings and the
\* press starts as they were, and still marks the event consumed.
C30_UnboundIsSilent ==
    /\ [](\A i \in Unbound :
            LET e == hist.order[i]
            IN  /\ CallsFor(e.id) = <<>>
                /\ ~hist.thrown
                /\ EventHash(e) \notin DOMAIN pressedButtons
                /\ hist.resolved[e.id] = 1 /\ hist.marked[e.id] = 1)
    /\ [][UnboundKeepTables]_vars

\* an update() has resolved a press of an unbound key while another key is
\* bound to a mapping with listeners
C30_Witness ==
    \E i \in Unbound :
        /\ hist.order[i].pressed
        /\ hist.marked[hist.order[i].id] = 1
        /\ \E hash \in DOMAIN bindings : BoundListeners(hash, "action") # {}

(***************************************************************************)
(* Dispatch across update() calls.                                         *)
(***************************************************************************)
\* C32: no event is dispatched by more than one update(), also when an
\* update() was ended by a throwing listener and update() is called again,
\* so no action listener is called twice for the same event: not by two
\* update() calls and not within one.
C32_NoRedispatchAfterAbort ==
    /\ \A id \in 1..MaxEvents : hist.resolved[id] <= 1
    /\ \A k \in DOMAIN log : \A j \in DOMAIN log :
          (log[k].kind = "action" /\ log[j].name = log[k].name
           /\ log[j].idx = log[k].idx /\ log[j].ev = log[k].ev) => j = k

\* what an update() that returns normally leaves behind
UpdateReturns ==
    (Update(16) /\ ~hist'.thrown) =>
        /\ lastLastUpdateTime' = lastUpdateTime
        /\ lastUpdateTime' = KeyInputTime(clock)
        /\ inputQueue' = <<>>

\* C33: an update() that returns normally leaves lastLastUpdateTime at the
\* value lastUpdateTime had before the call, lastUpdateTime at the clock
\* reading of the call, and the queue empty; the clock never going back,
\* lastLastUpdateTime <= lastUpdateTime in every reachable state.
C33_BoundariesAdvance ==
    /\ [](~TLess(lastUpdateTime, lastLastUpdateTime))
    /\ [][UpdateReturns]_vars

\* an update() at a later clock reading than the previous one has just
\* resolved an event and returned normally
C33_Witness ==
    /\ hist.order # <<>> /\ ~hist.thrown
    /\ TLess(lastLastUpdateTime, lastUpdateTime)
    /\ lastUpdateTime = KeyInputTime(clock)
    /\ inputQueue = <<>>

\* the holds whose key the settling phase of the last update() visited
Settled == {h \in hist.settled : h \in DOMAIN hist.holds /\ h \in DOMAIN bindings}

\* C34 as stated: the settling phase of the update() that resolves a press
\* calls no analog listener for the key, and the settling phase of the next
\* update() makes the first settling call, from the time between the press
\* and the boundary of the tick that resolved the press.
C34_FirstSettleNextTick ==
    \A h \in Settled :
        LET H == hist.holds[h]
        IN  \A t \in BoundListeners(h, "analog") :
                /\ H.ticks = 1 => SettleCalls(t, h) = <<>>
                /\ H.ticks = 2 =>
                      /\ Len(SettleCalls(t, h)) = 1
                      /\ SettleCalls(t, h)[1].td = TSub(lastLastUpdateTime, H.press)

\* C34 amended: the settling phase of the update() that resolves a press
\* calls no analog listener for the key; the first settling call is made by
\* the first later update() whose previous tick boundary is later than the
\* press time stamp, which is the next update() unless the press is stamped
\* exactly at the boundary of the tick that resolved it, and it covers the
\* time from the press to that previous boundary.
C34_FirstSettleAfterPress ==
    \A h \in Settled :
        LET H == hist.holds[h]
        IN  /\ H.ticks = 1 => H.settles = 0
            /\ H.ticks = 2 => (H.settles = 1 <=> TLess(H.press, lastLastUpdateTime))
            /\ H.settles = 0 => ~TLess(H.press, lastLastUpdateTime)
            /\ \A t \in BoundListeners(h, "analog") :
                  LET calls == SettleCalls(t, h)
                  IN  /\ H.ticks = 1 => calls = <<>>
                      /\ (H.settles = 1 /\ calls # <<>>) =>
                            /\ Len(calls) = 1
                            /\ calls[1].td = TSub(lastLastUpdateTime, H.press)
                            /\ TLess(H.press, lastLastUpdateTime)

\* the second settling phase of a hold has just made the first settling call
\* for the key
C34_Witness ==
    \E h \in Settled :
        /\ hist.holds[h].ticks = 2 /\ hist.holds[h].settles = 1
        /\ \E t \in BoundListeners(h, "analog") : Len(SettleCalls(t, h)) = 1

\* the place of a mapping among the mappings bound to a hash
BindingIndex(hash, name) == CHOOSE k \in DOMAIN bindings[hash] : bindings[hash][k] = name

\* C35: of the mappings bound to one hash, an event of that hash reaches the
\* mapping bound last first, and all listeners of one mapping before any
\* listener of the next: the calls made for one event, action calls and
\* analog calls alike, never go from a mapping to one bound after it.
C35_ReverseBindingOrder ==
    \A i \in Resolved(TRUE) \cup Resolved(FALSE) :
        LET e == hist.order[i]
            hash == EventHash(e)
        IN  \A kind \in {"analog", "action"} :
                LET calls == SelectSeq(CallsFor(e.id), LAMBDA c : c.kind = kind)
                IN  \A a \in DOMAIN calls : \A b \in DOMAIN calls :
                        a < b => BindingIndex(hash, calls[a].name)
                                     >= BindingIndex(hash, calls[b].name)

\* one event of a key bound to two mappings, each with an action listener:
\* the listener of the mapping bound second was called first
C35_Witness ==
    \E i \in Resolved(TRUE) :
        LET e == hist.order[i]
            calls == CallsFor(e.id)
        IN  /\ Len(calls) = 2
            /\ Len(bindings[EventHash(e)]) = 2
            /\ calls[1].name = bindings[EventHash(e)][2]
            /\ calls[2].name = bindings[EventHash(e)][1]

(***************************************************************************)
(* The press-start table.                                                  *)
(***************************************************************************)
\* the press start of a hash held before and after a step does not move back
PressStartNotEarlier ==
    \A hash \in DOMAIN pressedButtons \cap DOMAIN pressedButtons' :
        ~TLess(pressedButtons'[hash], pressedButtons[hash])

\* C36: every hash with a press start has a mapping bound to it, and a hash
\* has one press start: the time stamp of the last press resolved for it,
\* which replaces the one stored by an earlier press of the hash still held
\* and is not earlier than that one.
C36_PressStartsBound ==
    /\ [](\A hash \in DOMAIN pressedButtons :
            hash \in DOMAIN bindings /\ Len(bindings[hash]) >= 1)
    /\ [](\A i \in Resolved(TRUE) :
            LastOfHash(i) =>
                LET hash == EventHash(hist.order[i])
                IN  /\ hash \in DOMAIN pressedButtons
                    /\ pressedButtons[hash] = hist.order[i].time)
    /\ [][PressStartNotEarlier]_vars

\* a second press of a key that was already held has been resolved at a later
\* clock reading and its time stamp is the press start of the key
C36_Witness ==
    \E i \in Resolved(TRUE) :
        LET hash == EventHash(hist.order[i])
        IN  /\ LastOfHash(i)
            /\ hash \in DOMAIN hist.holds /\ hist.holds[hash].presses = 2
            /\ TLess(TZero, hist.order[i].time)
            /\ pressedButtons[hash] = hist.order[i].time

C38_KeyupReleases ==
    \A keyCode \in DOMAIN hist.physical :
        /\ hist.physical[keyCode] = "up" =>
              \E i \in DOMAIN keyInputEvents :
                  /\ keyInputEvents[i].code = keyCode
                  /\ ~keyInputEvents[i].pressed
        /\ hist.physical[keyCode] = "flushed" =>
              /\ keyHash(keyCode) \notin DOMAIN pressedButtons
              /\ \A k \in DOMAIN log :
                    ~(log[k].phase = "settle" /\ log[k].hash = keyHash(keyCode))
====
